---- MODULE Spec2Model ----
(***************************************************************************)
(* Punch Clock (obsidian-plugin-punch-clock): the timer lifecycle, the     *)
(* monthly CSV store and the text-record codec.                            *)
(*                                                                         *)
(* The callers (main.ts, src/modal.ts, src/view.ts) are modelled from      *)
(* their code.  The data manager (src/data-manager.ts) is imported by all  *)
(* of them but is not part of the sources at hand: its operations are      *)
(* modelled from spec.md sections 3, 4 and 6.                              *)
(*                                                                         *)
(* Time is in epoch milliseconds, in UTC.  An entry id is the decimal      *)
(* string of a millisecond timestamp (now.toString()); it is modelled by   *)
(* the number it spells, string equality being number equality.            *)
(***************************************************************************)
EXTENDS Integers, Sequences, FiniteSets, TLC

(* ------------------------------ bounds --------------------------------- *)

\* Entries created by start operations in one behaviour.
MaxEntries == 2

\* Clock readings by the handlers of the user in one behaviour.
MaxTicks == 3

\* Rows over all monthly files.
MaxRows == 3

\* Rows of the file put through the codec.
MaxLines == 2

\* Days the plugin stays unloaded in one behaviour.
MaxDays == 1

(* --------------------------- program constants ------------------------- *)

SecMs == 1000

DaySecs == 86400

DayMs == DaySecs * SecMs

\* The clock at the start of a behaviour and the two advances of the model:
\* less than a second, and 24 hours to the millisecond.
FirstNow == 1700

ShortGap == 700

LongGap == DayMs

Categories == {"Work", "Personal"}

defaultCategory == "Work"

Memos == {"", "m"}

NoTime == -1

NoId == -1

(* ------------------------------ entries -------------------------------- *)

\* TimeEntry (types.ts).  endTime = NoTime stands for null.  `ref` is not a
\* field of the program, it stands for object identity: "active" marks the
\* cache object that TimerModal.activeTimer refers to, "new" the object that
\* TimerModal.startTimer's newEntry refers to while its addEntry is awaited.
Entry(id, st, en, dur, cat, memo, run) ==
    [id |-> id, startTime |-> st, endTime |-> en, duration |-> dur,
     category |-> cat, memo |-> memo, isRunning |-> run, ref |-> ""]

NoEntry == Entry(NoId, NoTime, NoTime, 0, "", "", FALSE)

\* The fields of an entry, whatever object holds them.
Data(e) == [e EXCEPT !.ref = ""]

\* const newEntry = { id: now.toString(), startTime: now, endTime: null,
\*                    duration: 0, category, memo, isRunning: true }
NewEntry(t, cat, memo) == Entry(t, t, NoTime, 0, cat, memo, TRUE)

\* The live elapsed time of spec.md section 3.
Elapsed(e, t) == e.duration + ((t - e.startTime) \div SecMs)

(* ------------------------------ calendar ------------------------------- *)

\* The civil (year, month, day) of a day number counted from 1970-01-01.
CivilFromDays(days) ==
    LET z   == days + 719468
        era == z \div 146097
        doe == z - era * 146097
        yoe == (doe - (doe \div 1460) + (doe \div 36524) - (doe \div 146096)) \div 365
        doy == doe - (365 * yoe + (yoe \div 4) - (yoe \div 100))
        mp  == (5 * doy + 2) \div 153
        d   == doy - ((153 * mp + 2) \div 5) + 1
        m   == IF mp < 10 THEN mp + 3 ELSE mp - 9
        y   == yoe + era * 400 + (IF m <= 2 THEN 1 ELSE 0)
    IN  [year |-> y, month |-> m, day |-> d]

DaysFromCivil(y0, m, d) ==
    LET y   == IF m <= 2 THEN y0 - 1 ELSE y0
        era == y \div 400
        yoe == y - era * 400
        mp  == IF m > 2 THEN m - 3 ELSE m + 9
        doy == ((153 * mp + 2) \div 5) + d - 1
        doe == yoe * 365 + (yoe \div 4) - (yoe \div 100) + doy
    IN  era * 146097 + doe - 719468

\* The day the clock counts from.  Timestamps are milliseconds since
\* 1970-01-15T00:00:00Z rather than since 1970-01-01: 32-bit integers hold 24
\* days of milliseconds, and these 24 days are to reach into a second month.
EpochDay == DaysFromCivil(1970, 1, 15)

\* The civil date of a timestamp.
CivilOf(ms) == CivilFromDays(EpochDay + (ms \div DayMs))

\* The (year, month) key of the monthly file of a timestamp: YYYY-MM.csv.
MonthKey(ms) ==
    LET c == CivilOf(ms) IN c.year * 12 + (c.month - 1)

(* ------------------------- rows of a monthly file ---------------------- *)

\* Minutes and hours rounded to 2 decimals, in hundredths.
Hundredths(secs, unit) == (secs * 200 + unit) \div (2 * unit)

\* The 8 fields of the row of an entry: the date and the times keep whole
\* seconds only (YYYY-MM-DD, HH:mm:ss), and the end time keeps no date.
\* `of` is no field of the file: it records the id of the entry the row was
\* written from, for the properties only.
Fields(e) ==
    [of       |-> e.id,
     date     |-> e.startTime \div DayMs,
     start    |-> (e.startTime \div SecMs) % DaySecs,
     end      |-> IF e.endTime = NoTime THEN NoTime
                  ELSE (e.endTime \div SecMs) % DaySecs,
     secs     |-> e.duration,
     mins     |-> Hundredths(e.duration, 60),
     hours    |-> Hundredths(e.duration, 3600),
     category |-> e.category,
     memo     |-> e.memo]

\* The start of a row, re-parsed from date + start time.
RowStartMs(r) == (r.date * DaySecs + r.start) * SecMs

\* The id of a row: the re-parsed start timestamp, stringified.
RowId(r) == RowStartMs(r)

\* The entry a row decodes to.
RowEntry(r) ==
    Entry(RowId(r), RowStartMs(r),
          IF r.end = NoTime THEN NoTime ELSE (r.date * DaySecs + r.end) * SecMs,
          r.secs, r.category, r.memo, FALSE)

(* ------------------------------- state --------------------------------- *)

VARIABLES
    now,          \* Date.now()
    ticks,        \* clock readings by the handlers of the user so far
    created,      \* entries created so far
    loaded,       \* the plugin is loaded (onload has run, onunload has not)
    entries,      \* DataManager: the in-memory cache
    slot,         \* running-timer.json (NoEntry: the file is absent)
    files,        \* the monthly files: month key -> rows after the header
    tasks,        \* data-manager operations suspended at a storage boundary
    modalOpen,    \* TimerModal is open
    activeTimer,  \* TimerModal.activeTimer when it is no cache object
    activeLive,   \* TimerModal.activeTimer is the cache object marked "active"
    editingId,    \* TimerModal.editingId (NoId: isEditing = false)
    formCategory, \* TimerModal.categoryDropdown value
    formMemo,     \* TimerModal.memoInput value
    btnText,      \* TimerModal.startStopBtn text
    recentIds,    \* ids of the recent entries the TimerModal has rendered
    dialogOpen,   \* StartTimerModal is open
    panelStop,    \* the panel shows its running-timer block (Stop button)
    view,         \* PunchClockView: the panel and its refresh interval
    editEntry,    \* EditEntryModal.entry, the copy it was opened with (NoEntry:
                  \* no edit dialog is open)
    lastStart,    \* history: the latest start request and its outcome
    lastStop,     \* history: the latest stop request and its outcome
    written,      \* history: the ids whose row was written to a monthly file
    cancelled,    \* history: the ids of the entries cancelled while running and
                  \* never stopped (a cancel cut short by a crash is forgotten)
    codec,        \* the text of a month file put through the codec (CodecSpec)
    report,       \* PunchClockView: what the report panel displays (ReportSpec)
    config        \* the category settings and categories.json (ConfigSpec)

progVars == <<now, ticks, created, loaded, entries, slot, files, tasks, modalOpen,
          activeTimer, activeLive, editingId, formCategory, formMemo, btnText,
          recentIds, dialogOpen, panelStop, view, editEntry, lastStart, lastStop,
          written, cancelled>>

auxVars == <<codec, report, config>>

vars == <<progVars, auxVars>>

modalVars == <<modalOpen, activeTimer, activeLive, editingId, formCategory,
               formMemo, btnText, recentIds>>

(* --------------------------- sequence helpers -------------------------- *)

Range(s) == {s[i] : i \in DOMAIN s}

\* Array.prototype.filter.
Filter(s, keep(_)) ==
    LET F[i \in 0..Len(s)] ==
            IF i = 0 THEN <<>>
            ELSE IF keep(s[i]) THEN Append(F[i - 1], s[i]) ELSE F[i - 1]
    IN  F[Len(s)]

\* The first index of s whose element satisfies p, 0 if there is none
\* (Array.prototype.findIndex / find).
FindIndex(s, p(_)) ==
    IF \E i \in DOMAIN s : p(s[i])
    THEN CHOOSE i \in DOMAIN s : p(s[i]) /\ \A j \in 1..(i - 1) : ~p(s[j])
    ELSE 0

RECURSIVE InsertByStart(_, _)
InsertByStart(s, e) ==
    IF s = <<>> THEN <<e>>
    ELSE IF e.startTime < Head(s).startTime THEN <<e>> \o s
    ELSE <<Head(s)>> \o InsertByStart(Tail(s), e)

\* entries.sort((a, b) => a.startTime - b.startTime): a stable sort.
RECURSIVE SortByStart(_)
SortByStart(s) ==
    IF s = <<>> THEN <<>>
    ELSE InsertByStart(SortByStart(SubSeq(s, 1, Len(s) - 1)), s[Len(s)])

(* ----------------- data manager: the monthly log store ----------------- *)

Rows(fs, k) == IF k \in DOMAIN fs THEN fs[k] ELSE <<>>

TotalRows(fs) ==
    LET RECURSIVE Sum(_)
        Sum(ks) == IF ks = {} THEN 0
                   ELSE LET k == CHOOSE x \in ks : TRUE
                        IN  Len(fs[k]) + Sum(ks \ {k})
    IN  Sum(DOMAIN fs)

\* upsert/append: the ids of the existing rows are re-derived from their
\* content and compared with the entry's id; a collision overwrites that row
\* in place, otherwise the row is appended.
UpsertRows(rows, e) ==
    LET i == FindIndex(rows, LAMBDA r : RowId(r) = e.id)
    IN  IF i = 0 THEN Append(rows, Fields(e))
        ELSE [rows EXCEPT ![i] = Fields(e)]

\* The file of the entry's month is created when it does not exist.
MonthlyUpsert(fs, e) ==
    LET k == MonthKey(e.startTime)
    IN  [x \in DOMAIN fs \cup {k} |-> IF x = k THEN UpsertRows(Rows(fs, k), e) ELSE fs[x]]

\* delete(id): the month is the one of the id parsed back to a date; the rows
\* whose derived id is the id are filtered out; no file, no row: a no-op.
MonthlyDelete(fs, id) ==
    LET k == MonthKey(id)
    IN  IF k \in DOMAIN fs
        THEN [fs EXCEPT ![k] = Filter(fs[k], LAMBDA r : RowId(r) # id)]
        ELSE fs

\* The row of a month file whose derived id is the id (getById's fallback).
DiskLookup(fs, id) ==
    LET rows == Rows(fs, MonthKey(id))
        i    == FindIndex(rows, LAMBDA r : RowId(r) = id)
    IN  IF id = NoId \/ i = 0 THEN NoEntry ELSE RowEntry(rows[i])

\* A monthly file holds a row of the entry of that id: a row written from
\* it, or a row whose derived id is that id.
HasRow(fs, id) ==
    \E k \in DOMAIN fs : \E i \in DOMAIN fs[k] :
        fs[k][i].of = id \/ RowId(fs[k][i]) = id

\* All rows of all files, decoded.
AllRowEntries(fs) ==
    LET RECURSIVE Cat(_)
        Cat(ks) == IF ks = {} THEN <<>>
                   ELSE LET k == CHOOSE x \in ks : \A y \in ks : x <= y
                        IN  fs[k] \o Cat(ks \ {k})
        rows == Cat(DOMAIN fs)
    IN  [i \in DOMAIN rows |-> RowEntry(rows[i])]

(* ---------------- data manager: the entry cache & index ---------------- *)

\* getRunningEntry(): a linear scan for the entry with isRunning = true.
RunningIndex(es) == FindIndex(es, LAMBDA e : e.isRunning)

getRunningEntry(es) ==
    IF RunningIndex(es) = 0 THEN NoEntry ELSE es[RunningIndex(es)]

\* getEntry(id): the cache only.
getEntry(es, id) ==
    LET i == FindIndex(es, LAMBDA e : e.id = id)
    IN  IF id = NoId \/ i = 0 THEN NoEntry ELSE es[i]

\* getEntryAsync(id): memory first, then the month file of the id.
getEntryAsync(es, fs, id) ==
    IF getEntry(es, id) # NoEntry THEN getEntry(es, id) ELSE DiskLookup(fs, id)

\* update: the fields named by mask are merged into the entry, the merged
\* result being a new object.
Merge(e, mask, vals) ==
    [f \in DOMAIN e |-> IF f = "ref" THEN ""
                        ELSE IF f \in mask THEN vals[f] ELSE e[f]]

\* updateEntry's memory part: the cache entry of that id is replaced by the
\* merged one.
UpdateMem(es, id, mask, vals) ==
    LET i == FindIndex(es, LAMBDA e : e.id = id)
    IN  IF i = 0 THEN es ELSE [es EXCEPT ![i] = Merge(es[i], mask, vals)]

\* deleteEntry's memory part.
RemoveMem(es, id) == Filter(es, LAMBDA e : e.id # id)

\* stopRunningEntry's finalization of the running entry.
StopMask == {"endTime", "duration", "isRunning"}

Finalize(e, t) ==
    Merge(e, StopMask, [endTime |-> t, duration |-> Elapsed(e, t), isRunning |-> FALSE])

\* loadData(): the cache is rebuilt from the monthly files and the slot.
LoadEntries(fs, sl) ==
    SortByStart(AllRowEntries(fs) \o (IF sl = NoEntry THEN <<>> ELSE <<sl>>))

(* ------------------- suspended data-manager operations ----------------- *)

\* An operation suspended at a storage boundary: what it will write (e, id,
\* mask), where it is (pc), the caller that awaits it (cont; "none" when the
\* call was not awaited) and what that caller keeps for later (arg).
Task(op, pc, e, id, mask, cont, arg) ==
    [op |-> op, pc |-> pc, e |-> e, id |-> id, mask |-> mask, cont |-> cont, arg |-> arg]

\* `at` is the clock reading of the request; `sel` is the recent entry a
\* continue of the timer dialog was asked for (NoEntry for the other starts).
NoStart == [op |-> "none", prev |-> NoId, outcome |-> "none", prevDone |-> TRUE,
            at |-> NoTime, sel |-> NoEntry]

NoStop == [path |-> "none", pre |-> NoEntry, t |-> NoTime, before |-> NoEntry,
           post |-> NoEntry, done |-> FALSE, idle |-> FALSE, effect |-> FALSE,
           uniq |-> TRUE]

\* The id is the id of exactly one entry (spec.md section 3: ids are unique
\* among the entries held).
UniqueId(es, id) == Cardinality({i \in DOMAIN es : es[i].id = id}) = 1

\* The part of the state a handler's synchronous run reads and writes; spawn
\* collects the operations it leaves suspended.
Cur ==
    [entries |-> entries, spawn |-> {}, created |-> created,
     modalOpen |-> modalOpen, activeTimer |-> activeTimer, activeLive |-> activeLive,
     editingId |-> editingId, formCategory |-> formCategory, formMemo |-> formMemo,
     btnText |-> btnText, recentIds |-> recentIds, dialogOpen |-> dialogOpen,
     panelStop |-> panelStop, view |-> view, editEntry |-> editEntry,
     lastStart |-> lastStart,
     lastStop |-> lastStop]

Commit(b, done) ==
    /\ entries' = b.entries
    /\ tasks' = (tasks \ done) \cup b.spawn
    /\ created' = b.created
    /\ modalOpen' = b.modalOpen
    /\ activeTimer' = b.activeTimer
    /\ activeLive' = b.activeLive
    /\ editingId' = b.editingId
    /\ formCategory' = b.formCategory
    /\ formMemo' = b.formMemo
    /\ btnText' = b.btnText
    /\ recentIds' = b.recentIds
    /\ dialogOpen' = b.dialogOpen
    /\ panelStop' = b.panelStop
    /\ view' = b.view
    /\ editEntry' = b.editEntry
    /\ lastStart' = b.lastStart
    /\ lastStop' = b.lastStop

ActiveIndex(es) == FindIndex(es, LAMBDA e : e.ref = "active")

\* The cache becomes es.  When the object the dialog's activeTimer refers to
\* is no longer in it (replaced by a merged copy, or removed), the dialog is
\* left with that object as it was.
SetEntries(b, es) ==
    IF b.activeLive /\ ActiveIndex(es) = 0
    THEN [b EXCEPT !.entries = es,
                   !.activeTimer = Data(b.entries[ActiveIndex(b.entries)]),
                   !.activeLive = FALSE]
    ELSE [b EXCEPT !.entries = es]

\* this.activeTimer, NoEntry for null or undefined.
ActiveTimerOf(b) ==
    IF b.activeLive THEN b.entries[ActiveIndex(b.entries)] ELSE b.activeTimer

Untag(es, tag) == [i \in DOMAIN es |-> IF es[i].ref = tag THEN Data(es[i]) ELSE es[i]]

\* this.activeTimer = null
SetActiveNull(b) ==
    [b EXCEPT !.entries = Untag(b.entries, "active"),
              !.activeTimer = NoEntry, !.activeLive = FALSE]

\* this.activeTimer = <the cache object at index i> (0: undefined)
SetActiveCache(b, i) ==
    IF i = 0 THEN SetActiveNull(b)
    ELSE [b EXCEPT !.entries = [Untag(b.entries, "active") EXCEPT ![i].ref = "active"],
                   !.activeTimer = NoEntry, !.activeLive = TRUE]

\* addEntry(e), up to its first storage boundary: appended to memory.
DMAdd(b, e, cont) ==
    [SetEntries(b, Append(b.entries, e)) EXCEPT
        !.spawn = @ \cup {Task("add", "persist", Data(e), e.id, {}, cont, NoEntry)},
        !.created = @ + 1]

\* stopRunningEntry() when an entry is running, up to its first storage
\* boundary: the entry is finalized as of t.
DMStop(b, t, cont, arg, path) ==
    LET r == getRunningEntry(b.entries)
    IN  [b EXCEPT
            !.spawn = @ \cup {Task("stop", "persist", Data(Finalize(r, t)), r.id,
                                   StopMask, cont, arg)},
            !.lastStop = [path |-> path, pre |-> Data(r), t |-> t, before |-> NoEntry,
                          post |-> NoEntry, done |-> FALSE, idle |-> FALSE,
                          effect |-> TRUE, uniq |-> UniqueId(b.entries, r.id)]]

\* updateEntry(id, fields), up to its first storage boundary: merged into
\* the entry in memory, or left to the lookup in the month file of the id.
DMUpdate(b, id, mask, vals, cont) ==
    LET i  == FindIndex(b.entries, LAMBDA e : e.id = id)
        es == UpdateMem(b.entries, id, mask, vals)
    IN  IF i = 0
        THEN [b EXCEPT !.spawn = @ \cup {Task("update", "lookup", vals, id, mask, cont, NoEntry)}]
        ELSE [SetEntries(b, es) EXCEPT
                !.spawn = @ \cup {Task("update", "persist", Data(es[i]), id, mask, cont, NoEntry)}]

\* deleteEntry(id), up to its first storage boundary: removed from memory.
DMRemove(b, id, cont) ==
    [SetEntries(b, RemoveMem(b.entries, id)) EXCEPT
        !.spawn = @ \cup {Task("remove", "persist", NoEntry, id, {}, cont, NoEntry)}]

(* --------------------- TimerModal (src/modal.ts) ----------------------- *)

\* displayRecentEntries: the ids of the 5 most recent entries not running.
RecentOf(es) ==
    LET f == SortByStart(Filter(es, LAMBDA e : ~e.isRunning))
    IN  {f[i].id : i \in {j \in DOMAIN f : j > Len(f) - 5}}

\* resetForm()
ResetForm(b) ==
    [b EXCEPT !.formCategory = defaultCategory, !.formMemo = "", !.editingId = NoId]

\* The entry of that id, if it is in the cache, is no longer running and has
\* its end time.
PrevDone(es, prev) ==
    \A i \in DOMAIN es : es[i].id = prev => (~es[i].isRunning /\ es[i].endTime # NoTime)

StartMask == {"category", "memo", "isRunning", "startTime", "endTime", "duration"}

\* startTimer() from `const now = Date.now()` on: the edited entry is
\* updated to run again, or a new entry is added.
ModalStartPart(b, t) ==
    LET ls == [b.lastStart EXCEPT !.outcome = "added",
                                  !.prevDone = PrevDone(b.entries, b.lastStart.prev)]
        c  == [b EXCEPT !.lastStart = ls]
    IN  IF b.editingId # NoId
        THEN DMUpdate(c, b.editingId, StartMask,
                      Entry(b.editingId, t, NoTime, 0, b.formCategory, b.formMemo, TRUE),
                      "modalStartedEdit")
        ELSE DMAdd(c, [NewEntry(t, b.formCategory, b.formMemo) EXCEPT !.ref = "new"],
                   "modalStartedNew")

\* startTimer() without its stop of the running entry.
ModalStartNoStop(b, t) ==
    ModalStartPart([b EXCEPT !.lastStart =
                        [op |-> "modal", prev |-> getRunningEntry(b.entries).id,
                         outcome |-> "pending", prevDone |-> FALSE,
                         at |-> t, sel |-> NoEntry]], t)

\* startTimer() up to its first await: a running entry is stopped first.
ModalStartTimer(b, t) ==
    LET r == getRunningEntry(b.entries)
    IN  IF r # NoEntry
        THEN [DMStop(b, t, "modalStart", NoEntry, "dm") EXCEPT
                !.lastStart = [op |-> "modal", prev |-> r.id, outcome |-> "pending",
                               prevDone |-> FALSE, at |-> t, sel |-> NoEntry]]
        ELSE ModalStartPart([b EXCEPT !.lastStart = [op |-> "modal", prev |-> NoId,
                                                     outcome |-> "pending",
                                                     prevDone |-> TRUE, at |-> t,
                                                     sel |-> NoEntry]], t)

\* The duration stopTimer() computes.
StopDuration(e, t) == e.duration + ((t - e.startTime) \div SecMs)

\* stopTimer() up to its await, activeTimer being set and running.
ModalStopTimer(b, t) ==
    LET at == ActiveTimerOf(b)
        c  == DMUpdate(b, at.id, StopMask,
                       [Data(at) EXCEPT !.endTime = t, !.duration = StopDuration(at, t),
                                        !.isRunning = FALSE],
                       "modalStopped")
    IN  [c EXCEPT !.lastStop =
            [path |-> "modal", pre |-> Data(at), t |-> t,
             before |-> Data(getEntry(b.entries, at.id)),
             post |-> Data(getEntry(c.entries, at.id)), done |-> TRUE,
             idle |-> getRunningEntry(b.entries) = NoEntry, effect |-> TRUE,
             uniq |-> UniqueId(b.entries, at.id)]]

\* PunchClockView with nothing running: the panel is open, timerInterval,
\* timerValueEl and runningEntryId are null.  intervals counts the intervals
\* set with window.setInterval and not cleared with clearInterval; found
\* records whether the latest refreshView() found a running entry.
NewView ==
    [open |-> TRUE, timerInterval |-> FALSE, timerValueEl |-> FALSE,
     runningEntryId |-> NoId, intervals |-> 0, found |-> FALSE]

\* if (this.timerInterval) { clearInterval(this.timerInterval);
\*                           this.timerInterval = null }
ClearTimerInterval(v) ==
    IF v.timerInterval
    THEN [v EXCEPT !.timerInterval = FALSE, !.intervals = @ - 1]
    ELSE v

\* refreshView(), its synchronous part: the interval is cleared (and
\* timerValueEl with it), and when getRunningEntry() returns an entry its id
\* is kept and a new interval is set.
refreshView(b) ==
    LET v0 == IF b.view.timerInterval
              THEN [ClearTimerInterval(b.view) EXCEPT !.timerValueEl = FALSE]
              ELSE b.view
        runningEntry == getRunningEntry(b.entries)
    IN  [b EXCEPT !.view =
            IF runningEntry # NoEntry
            THEN [v0 EXCEPT !.runningEntryId = runningEntry.id, !.timerValueEl = TRUE,
                            !.timerInterval = TRUE, !.intervals = @ + 1,
                            !.found = TRUE]
            ELSE [v0 EXCEPT !.found = FALSE]]

\* The rest of a handler once the operation it awaited has completed.
Cont(k, b, t, at) ==
    CASE k = "modalStart" -> ModalStartPart(b, at)
      [] k = "modalStartedNew" ->
            \* this.activeTimer = newEntry
            LET i == FindIndex(b.entries, LAMBDA e : e.ref = "new")
            IN  IF i # 0 THEN [SetActiveCache(b, i) EXCEPT !.btnText = "Stop"]
                ELSE [SetActiveNull(b) EXCEPT !.activeTimer = t.e, !.btnText = "Stop"]
      [] k = "modalStartedEdit" ->
            \* this.activeTimer = this.dataManager.getEntry(this.editingId)
            [SetActiveCache(b, IF b.editingId = NoId THEN 0
                               ELSE FindIndex(b.entries, LAMBDA e : e.id = b.editingId))
                EXCEPT !.btnText = "Stop"]
      [] k = "modalStopped" ->
            LET c == ResetForm(SetActiveNull(b))
            IN  [c EXCEPT !.btnText = "Start", !.recentIds = RecentOf(c.entries)]
      [] k = "panelRefresh" ->
            refreshView([b EXCEPT !.panelStop = getRunningEntry(b.entries) # NoEntry])
      [] k = "panelStopped" ->
            \* if (this.timerInterval) { ... }; await this.refreshView()
            refreshView([b EXCEPT !.panelStop = getRunningEntry(b.entries) # NoEntry,
                                  !.view = ClearTimerInterval(b.view)])
      [] k = "openDialog" ->
            [b EXCEPT !.dialogOpen = TRUE,
                      !.lastStart = [@ EXCEPT !.outcome = "opened",
                                 !.prevDone = PrevDone(b.entries, b.lastStart.prev)]]
      [] k = "dialogStarted" ->
            refreshView([b EXCEPT !.dialogOpen = FALSE,
                                  !.panelStop = getRunningEntry(b.entries) # NoEntry])
      [] k = "continueAdd" ->
            DMAdd([b EXCEPT !.lastStart = [@ EXCEPT !.outcome = "added",
                                !.prevDone = PrevDone(b.entries, b.lastStart.prev)]],
                  NewEntry(at, t.arg.category, t.arg.memo), "panelRefresh")
      [] k = "editSaved" ->
            \* this.close(); this.onSaveCallback(): refreshView()
            refreshView([b EXCEPT !.editEntry = NoEntry,
                                  !.panelStop = getRunningEntry(b.entries) # NoEntry])
      [] OTHER -> b

(* ------------------- data manager: the text-record codec --------------- *)

\* Text is a sequence of characters.  A decimal digit, a number in decimal,
\* and a number padded with zeros to a width.
Digit(d) == <<"0", "1", "2", "3", "4", "5", "6", "7", "8", "9">>[d + 1]

RECURSIVE Digits(_)
Digits(n) == IF n < 10 THEN <<Digit(n)>> ELSE Digits(n \div 10) \o <<Digit(n % 10)>>

RECURSIVE Pad(_, _)
Pad(n, w) == IF w <= 1 THEN Digits(n) ELSE
             IF Len(Digits(n)) >= w THEN Digits(n) ELSE <<"0">> \o Pad(n, w - 1)

\* YYYY-MM-DD and HH:mm:ss of a timestamp.
FormatDate(ms) ==
    LET c == CivilOf(ms)
    IN  Pad(c.year, 4) \o <<"-">> \o Pad(c.month, 2) \o <<"-">> \o Pad(c.day, 2)

FormatTime(ms) ==
    LET sec == (ms \div SecMs) % DaySecs
    IN  Pad(sec \div 3600, 2) \o <<":">> \o Pad((sec % 3600) \div 60, 2)
            \o <<":">> \o Pad(sec % 60, 2)

\* A number of hundredths with 2 decimals.
Fixed2(h) == Digits(h \div 100) \o <<".">> \o Pad(h % 100, 2)

\* Quote characters left as they are.
DoubledNot(f) == f

\* A field wrapped in quotes, its quote characters doubled.
RECURSIVE Doubled(_)
Doubled(f) ==
    IF f = <<>> THEN <<>>
    ELSE (IF Head(f) = "\"" THEN <<"\"", "\"">> ELSE <<Head(f)>>) \o Doubled(Tail(f))

Quoted(f) == <<"\"">> \o Doubled(f) \o <<"\"">>

RECURSIVE JoinFields(_)
JoinFields(fs) ==
    IF Len(fs) = 0 THEN <<>>
    ELSE IF Len(fs) = 1 THEN fs[1]
    ELSE fs[1] \o <<",">> \o JoinFields(Tail(fs))

\* encode(entry): the 8-field row.
EncodeRow(e) ==
    JoinFields(<<FormatDate(e.startTime), FormatTime(e.startTime),
                 IF e.endTime = NoTime THEN <<>> ELSE FormatTime(e.endTime),
                 Digits(e.duration), Fixed2(Hundredths(e.duration, 60)),
                 Fixed2(Hundredths(e.duration, 3600)),
                 Quoted(e.category), Quoted(e.memo)>>)

\* The fields of a row: a comma outside quotes ends a field, a doubled quote
\* inside quotes is one quote character.
RECURSIVE SplitFrom(_, _, _, _, _)
SplitFrom(line, i, inQuotes, cur, acc) ==
    IF i > Len(line) THEN Append(acc, cur)
    ELSE IF line[i] = "\""
         THEN IF inQuotes /\ i < Len(line) /\ line[i + 1] = "\""
              THEN SplitFrom(line, i + 2, inQuotes, Append(cur, "\""), acc)
              ELSE SplitFrom(line, i + 1, ~inQuotes, cur, acc)
    ELSE IF line[i] = "," /\ ~inQuotes
         THEN SplitFrom(line, i + 1, inQuotes, <<>>, Append(acc, cur))
    ELSE SplitFrom(line, i + 1, inQuotes, Append(cur, line[i]), acc)

SplitRow(line) == SplitFrom(line, 1, FALSE, <<>>, <<>>)

\* parseInt: the number of the leading digits, 0 when there is none.
DigitValue(c) ==
    CASE c = "0" -> 0 [] c = "1" -> 1 [] c = "2" -> 2 [] c = "3" -> 3 [] c = "4" -> 4
      [] c = "5" -> 5 [] c = "6" -> 6 [] c = "7" -> 7 [] c = "8" -> 8 [] c = "9" -> 9
      [] OTHER -> NoTime

RECURSIVE ParseFrom(_, _, _)
ParseFrom(t, i, acc) ==
    IF i > Len(t) \/ DigitValue(t[i]) = NoTime THEN acc
    ELSE ParseFrom(t, i + 1, acc * 10 + DigitValue(t[i]))

ParseInt(t) == ParseFrom(t, 1, 0)

\* The timestamp of a YYYY-MM-DD date and a HH:mm:ss time.
ParseDateTime(d, t) ==
    LET days == DaysFromCivil(ParseInt(SubSeq(d, 1, 4)), ParseInt(SubSeq(d, 6, 7)),
                              ParseInt(SubSeq(d, 9, 10))) - EpochDay
        secs == ParseInt(SubSeq(t, 1, 2)) * 3600 + ParseInt(SubSeq(t, 4, 5)) * 60
                    + ParseInt(SubSeq(t, 7, 8))
    IN  (days * DaySecs + secs) * SecMs

\* The current layout for exactly 8 fields only.
CategoryAtExact(n) == IF n = 8 THEN 7 ELSE 5

\* The 1-based position of the category in a row of n fields: the current
\* layout from 8 fields on, else the legacy one.
CategoryAt(n) == IF n >= 8 THEN 7 ELSE 5

\* decode(row): NoEntry for a row that is skipped.
DecodeRow(line) ==
    LET f  == SplitRow(line)
        c  == CategoryAt(Len(f))
        st == ParseDateTime(f[1], f[2])
    IN  IF Len(f) < 5 THEN NoEntry
        ELSE Entry(st, st, IF f[3] = <<>> THEN NoTime ELSE ParseDateTime(f[1], f[3]),
                   ParseInt(f[4]), f[c], IF Len(f) > c THEN f[c + 1] ELSE <<>>, FALSE)

\* The rows of a file decoded one after the other, a skipped row not stopping
\* the decoding of the next.
DecodeFile(lines) == [i \in DOMAIN lines |-> DecodeRow(lines[i])]

\* No text has been put through the codec.
NoCodec == [text |-> <<>>, src |-> <<>>, out |-> <<>>, decoded |-> FALSE]

\* An empty { [category]: seconds } object.
NoBreakdown == [c \in {} |-> 0]

\* Nothing is displayed.
NoReport ==
    [view |-> "none", date |-> 0, startDate |-> 0, endDate |-> 0, entries |-> <<>>,
     totalDuration |-> 0, categoryBreakdown |-> NoBreakdown,
     baseCategoryBreakdown |-> NoBreakdown, chart |-> FALSE, ticking |-> FALSE,
     startDayOfWeek |-> 0, bars |-> <<>>, barTotal |-> 0]

(* ------------------------- the category settings ----------------------- *)

\* A category name is a sequence of characters; the characters of the model
\* are two words, the comma and the blank.

\* DEFAULT_SETTINGS: categories, categoryColors, defaultCategory.
DEFAULT_SETTINGS ==
    [categories      |-> << <<"Work">>, <<"Personal">>, <<"Research">>, <<"Meeting">> >>,
     categoryColors  |-> ( <<"Work">> :> "#4a90e2" @@ <<"Personal">> :> "#50c878"
                           @@ <<"Research">> :> "#ffa500" @@ <<"Meeting">> :> "#dc143c" ),
     defaultCategory |-> <<"Work">>]

\* categories.json is absent.
NoFile == [present |-> FALSE, categories |-> <<>>, categoryColors |-> << >>,
           defaultCategory |-> <<>>]

\* The settings after construction, nothing saved; `fresh`: the settings are
\* those of the latest load, no edit having been made since.
DefaultConfig == [settings |-> DEFAULT_SETTINGS, file |-> NoFile, fresh |-> FALSE]

\* value.split(','): the pieces between the commas, the empty ones included.
RECURSIVE SplitCommas(_, _, _)
SplitCommas(text, cur, acc) ==
    IF text = <<>> THEN Append(acc, cur)
    ELSE IF Head(text) = "," THEN SplitCommas(Tail(text), <<>>, Append(acc, cur))
    ELSE SplitCommas(Tail(text), Append(cur, Head(text)), acc)

\* category.trim()
RECURSIVE Trim(_)
Trim(piece) ==
    IF piece = <<>> THEN <<>>
    ELSE IF Head(piece) = " " THEN Trim(Tail(piece))
    ELSE IF piece[Len(piece)] = " " THEN Trim(SubSeq(piece, 1, Len(piece) - 1))
    ELSE piece

\* .filter(category => category.length > 0)
NonEmptyNames(names) == Filter(names, LAMBDA n : Len(n) > 0)

\* value.split(',').map(category => category.trim())
\*      .filter(category => category.length > 0)
ParseCategories(text) ==
    LET pieces == SplitCommas(text, <<>>, <<>>)
    IN  NonEmptyNames([i \in DOMAIN pieces |-> Trim(pieces[i])])

\* The fixed palette of the default colors.
Palette == <<"palette0", "palette1", "palette2">>

\* The first palette color, whatever the index.
PaletteFirst(i) == Palette[1]

\* The color of the category at index i (from 0), cycling.
PaletteColor(i) == Palette[(i % Len(Palette)) + 1]

\* Palette assignment over a category list: a category without a color gets
\* the palette color of its index.
AssignColors(categories, colors) ==
    LET A[i \in 0..Len(categories)] ==
            IF i = 0 THEN colors
            ELSE IF categories[i] \in DOMAIN A[i - 1] THEN A[i - 1]
            ELSE (categories[i] :> PaletteColor(i - 1)) @@ A[i - 1]
    IN  A[Len(categories)]

\* The default category of a loaded configuration: the first category when
\* the stored default is no member of the list.
HealDefault(categories, default) ==
    IF (\E i \in DOMAIN categories : categories[i] = default) \/ categories = <<>>
    THEN default
    ELSE categories[1]

\* saveCategories(): the whole file is rewritten from the settings.
SavedFile(st) ==
    [present |-> TRUE, categories |-> st.categories, categoryColors |-> st.categoryColors,
     defaultCategory |-> st.defaultCategory]

\* loadCategories(): an absent file is written from the settings; the
\* settings take the categories of the file, its default category, healed,
\* and its colors, completed from the palette.
LoadCategories(c) ==
    LET f == IF c.file.present THEN c.file ELSE SavedFile(c.settings)
    IN  [settings |-> [categories      |-> f.categories,
                       categoryColors  |-> AssignColors(f.categories, f.categoryColors),
                       defaultCategory |-> HealDefault(f.categories, f.defaultCategory)],
         file     |-> f,
         fresh    |-> TRUE]

(* ----------------------- the elapsed-time displays --------------------- *)

\* TimerModal.updateElapsedTime(), once a second while the dialog is open:
\* this.activeTimer.duration + Math.floor((now - this.activeTimer.startTime) / 1000)
ModalElapsed(e, t) == e.duration + ((t - e.startTime) \div SecMs)

\* refreshView() and updateRunningTimer(), once a second while the panel
\* shows a running timer:
\* Math.floor((now - runningEntry.startTime) / 1000) + runningEntry.duration
PanelElapsed(e, t) == ((t - e.startTime) \div SecMs) + e.duration

(* ------------------------------ actions -------------------------------- *)

Quiescent == tasks = {}

\* A new TimerModal, not yet opened.
ClosedModal(b) ==
    [ResetForm(SetActiveNull(b)) EXCEPT !.modalOpen = FALSE, !.btnText = "Start",
                                        !.recentIds = {}]

Init ==
    /\ now = FirstNow
    /\ ticks = 0
    /\ created = 0
    /\ loaded = FALSE
    /\ entries = <<>>
    /\ slot = NoEntry
    /\ files = <<>>
    /\ tasks = {}
    /\ modalOpen = FALSE
    /\ activeTimer = NoEntry
    /\ activeLive = FALSE
    /\ editingId = NoId
    /\ formCategory = defaultCategory
    /\ formMemo = ""
    /\ btnText = "Start"
    /\ recentIds = {}
    /\ dialogOpen = FALSE
    /\ panelStop = FALSE
    /\ view = NewView
    /\ editEntry = NoEntry
    /\ lastStart = NoStart
    /\ lastStop = NoStop
    /\ written = {}
    /\ cancelled = {}
    /\ codec = NoCodec
    /\ report = NoReport
    /\ config = DefaultConfig

\* The clock read by a handler: two requests of the user are a moment apart.
Later == now + ShortGap

Advance ==
    /\ ticks < MaxTicks
    /\ now' = Later
    /\ ticks' = ticks + 1

\* Time passes while the plugin is not loaded: a day, a second less or a
\* second more.
Away ==
    /\ ~loaded
    /\ Quiescent
    /\ now < MaxDays * DayMs
    /\ \E d \in {LongGap - SecMs, LongGap, LongGap + SecMs} : now' = now + d
    /\ UNCHANGED <<auxVars, ticks, created, loaded, entries, slot, files, tasks, modalVars, dialogOpen,
                   panelStop, view, editEntry, lastStart, lastStop, written, cancelled>>

\* checkForRunningTimers(): a timer running for more than a day is stopped;
\* the elapsed time is floor((now - startTime) / 1000), the stored duration of
\* the entry not being added.
StartupElapsed(e, t) == (t - e.startTime) \div SecMs

TooLong(e, t) == StartupElapsed(e, t) > DaySecs

\* onload(): loadData(), then checkForRunningTimers().
Onload ==
    /\ ~loaded
    /\ Quiescent
    /\ LET b0 == [ClosedModal(Cur) EXCEPT !.entries = LoadEntries(files, slot),
                                         !.dialogOpen = FALSE, !.panelStop = FALSE,
                                         !.view = NewView, !.editEntry = NoEntry]
           r  == getRunningEntry(b0.entries)
       IN  Commit(IF r # NoEntry /\ TooLong(r, now)
                  THEN DMStop(b0, now, "none", NoEntry, "startup")
                  ELSE b0, {})
    /\ loaded' = TRUE
    /\ UNCHANGED <<auxVars, now, ticks, slot, files, written, cancelled>>

\* onunload(): the running entry is stopped, the call not being awaited.
Unload ==
    /\ loaded
    /\ Quiescent
    /\ LET b0 == [ClosedModal(Cur) EXCEPT !.dialogOpen = FALSE, !.panelStop = FALSE,
                                         !.view = NewView, !.editEntry = NoEntry]
       IN  Commit(IF getRunningEntry(entries) # NoEntry
                  THEN DMStop(b0, now, "none", NoEntry, "unload")
                  ELSE b0, {})
    /\ loaded' = FALSE
    /\ UNCHANGED <<auxVars, now, ticks, slot, files, written, cancelled>>

\* The application dies: memory and the suspended operations are lost, the
\* files are kept.  (Bounded: a crash during a stop leaves a row and the slot,
\* and the next startup may write one more row.)
Crash ==
    /\ loaded
    /\ TotalRows(files) < MaxRows
    /\ Commit([ClosedModal(Cur) EXCEPT !.entries = <<>>, !.dialogOpen = FALSE,
                                       !.panelStop = FALSE, !.view = NewView,
                                       !.editEntry = NoEntry],
              tasks)
    /\ loaded' = FALSE
    /\ cancelled' = cancelled \ {t.id : t \in {x \in tasks : x.op = "remove"}}
    /\ UNCHANGED <<auxVars, now, ticks, slot, files, written>>

\* A handler the user can start: the plugin is loaded and no data-manager
\* operation is in flight (single-user, sequential access).
Ready == loaded /\ Quiescent /\ TotalRows(files) < MaxRows


\* startQuickTimer(): neither stopRunningEntry() nor addEntry() is awaited.
QuickStart ==
    /\ Advance
    /\ Ready
    /\ created < MaxEntries
    /\ LET r  == getRunningEntry(entries)
           b1 == IF r # NoEntry THEN DMStop(Cur, Later, "none", NoEntry, "dm") ELSE Cur
           b2 == DMAdd(b1, NewEntry(Later, defaultCategory, ""), "none")
       IN  Commit([b2 EXCEPT !.lastStart =
                      [op |-> "quick", prev |-> r.id, outcome |-> "added",
                       prevDone |-> PrevDone(b1.entries, r.id),
                       at |-> Later, sel |-> NoEntry]], {})
    /\ UNCHANGED <<auxVars, loaded, slot, files, written, cancelled>>

\* A stop requested while no entry is running, and whether it changed the
\* cache or left an operation suspended.
IdleStop(path, b, t) ==
    [NoStop EXCEPT !.path = path, !.t = t, !.idle = TRUE,
                   !.effect = (b.entries # entries \/ b.spawn # {})]

\* stopCurrentTimer()
StopCommand ==
    /\ Advance
    /\ Ready
    /\ Commit(IF getRunningEntry(entries) # NoEntry
              THEN DMStop(Cur, Later, "none", NoEntry, "dm")
              ELSE [Cur EXCEPT !.lastStop = IdleStop("command", Cur, Later)], {})
    /\ UNCHANGED <<auxVars, loaded, slot, files, written, cancelled>>

\* The Open Timer command or the ribbon icon: new TimerModal(...).open().
ModalOpen ==
    /\ Ready
    /\ ~modalOpen /\ ~dialogOpen
    /\ LET b0 == [ClosedModal(Cur) EXCEPT !.modalOpen = TRUE]
           i  == RunningIndex(entries)
           \* this.activeTimer = runningEntry; this.resumeTimer()
           b1 == IF i = 0 THEN b0
                 ELSE [SetActiveCache(b0, i) EXCEPT
                          !.formCategory = entries[i].category,
                          !.formMemo = entries[i].memo, !.btnText = "Stop"]
       IN  Commit([b1 EXCEPT !.recentIds = RecentOf(entries)], {})
    /\ UNCHANGED <<auxVars, now, ticks, loaded, slot, files, written, cancelled>>

\* The Start/Stop button of the TimerModal.
ModalStartStop ==
    /\ Advance
    /\ Ready
    /\ modalOpen
    /\ LET at == ActiveTimerOf(Cur)
       IN  IF at = NoEntry \/ ~at.isRunning
           THEN /\ (editingId # NoId \/ created < MaxEntries)
                /\ Commit(ModalStartTimer(Cur, Later), {})
           ELSE Commit(ModalStopTimer(Cur, Later), {})
    /\ UNCHANGED <<auxVars, loaded, slot, files, written, cancelled>>

\* cancelTimer() without its deleteEntry.
CancelTimerKeep(b, at) == b

\* cancelTimer(): deleteEntry(activeTimer.id), not awaited.
CancelTimer(b, at) == DMRemove(b, at.id, "none")

\* The Cancel button of the TimerModal: cancelTimer() when the dialog's timer
\* is running, then close().
ModalCancel ==
    /\ Ready
    /\ modalOpen
    /\ LET at == ActiveTimerOf(Cur)
           hit == at # NoEntry /\ at.isRunning
       IN  /\ Commit(ClosedModal(IF hit THEN CancelTimer(Cur, at) ELSE Cur), {})
           /\ cancelled' = IF hit /\ at.id \notin written /\ ~HasRow(files, at.id)
                           THEN cancelled \cup {at.id}
                           ELSE cancelled
    /\ UNCHANGED <<auxVars, now, ticks, loaded, slot, files, written>>

\* The dialog is closed without its Cancel button (Escape, a click outside).
ModalClose ==
    /\ Quiescent
    /\ modalOpen
    /\ Commit(ClosedModal(Cur), {})
    /\ UNCHANGED <<auxVars, now, ticks, loaded, slot, files, written, cancelled>>

\* The category dropdown of the TimerModal: onChange writes the field of
\* activeTimer.
ModalSetCategory ==
    /\ Ready
    /\ modalOpen
    /\ \E c \in Categories :
        /\ c # formCategory
        /\ Commit([Cur EXCEPT
              !.formCategory = c,
              !.entries = IF activeLive
                          THEN [@ EXCEPT ![ActiveIndex(entries)].category = c] ELSE @,
              !.activeTimer = IF ~activeLive /\ @ # NoEntry
                              THEN [@ EXCEPT !.category = c] ELSE @], {})
    /\ UNCHANGED <<auxVars, now, ticks, loaded, slot, files, written, cancelled>>

\* editEntry(id) of a recent entry.
ModalEdit ==
    /\ Ready
    /\ modalOpen
    /\ \E id \in recentIds :
        LET e == getEntry(entries, id)
        IN  Commit(IF e = NoEntry THEN Cur
                   ELSE [Cur EXCEPT !.editingId = id, !.formCategory = e.category,
                                    !.formMemo = e.memo], {})
    /\ UNCHANGED <<auxVars, now, ticks, loaded, slot, files, written, cancelled>>

\* continueEntry(id) of a recent entry: stopTimer() and startTimer() are
\* both called without await.
ModalContinue ==
    /\ Advance
    /\ Ready
    /\ modalOpen
    /\ created < MaxEntries
    /\ \E id \in recentIds :
        LET e  == getEntry(entries, id)
            at == ActiveTimerOf(Cur)
            b1 == IF at # NoEntry /\ at.isRunning THEN ModalStopTimer(Cur, Later) ELSE Cur
            b2 == [b1 EXCEPT !.formCategory = e.category, !.formMemo = e.memo]
        IN  Commit(IF e = NoEntry THEN Cur
                   ELSE [ModalStartTimer(b2, Later) EXCEPT !.lastStart.sel = Data(e)], {})
    /\ UNCHANGED <<auxVars, loaded, slot, files, written, cancelled>>

(* ------------------- the panel (src/view.ts) --------------------------- *)

PanelFree == Ready /\ view.open /\ ~modalOpen /\ ~dialogOpen /\ editEntry = NoEntry

\* refreshView(): the running-timer block is rendered when an entry runs.
PanelRefresh ==
    /\ PanelFree
    /\ panelStop # (getRunningEntry(entries) # NoEntry)
    /\ Commit(Cont("panelRefresh", Cur, NoEntry, now), {})
    /\ UNCHANGED <<auxVars, now, ticks, loaded, slot, files, written, cancelled>>

\* The Stop Timer button of the panel:
\* await stopRunningEntry(); ...; await refreshView().
PanelStopClick ==
    /\ Advance
    /\ PanelFree
    /\ panelStop
    /\ Commit(IF getRunningEntry(entries) # NoEntry
              THEN DMStop(Cur, Later, "panelStopped", NoEntry, "dm")
              ELSE Cont("panelStopped",
                        [Cur EXCEPT !.lastStop = IdleStop("panel", Cur, Later)],
                        NoEntry, Later),
              {})
    /\ UNCHANGED <<auxVars, loaded, slot, files, written, cancelled>>

\* openTimerModal(): confirm() when an entry runs; declined, nothing is done.
PanelStartClick ==
    /\ Advance
    /\ PanelFree
    /\ \E answer \in BOOLEAN :
        LET r  == getRunningEntry(entries)
            ls == [op |-> "panelStart", prev |-> r.id, outcome |-> "pending",
                   prevDone |-> r = NoEntry, at |-> Later, sel |-> NoEntry]
        IN  Commit(IF r = NoEntry
                   THEN [Cur EXCEPT !.dialogOpen = TRUE,
                                    !.lastStart = [ls EXCEPT !.outcome = "opened"]]
                   ELSE IF answer
                   THEN [DMStop(Cur, Later, "openDialog", NoEntry, "dm") EXCEPT
                            !.lastStart = ls]
                   ELSE [Cur EXCEPT !.lastStart = [ls EXCEPT !.outcome = "refused"]],
                   {})
    /\ UNCHANGED <<auxVars, loaded, slot, files, written, cancelled>>

\* StartTimerModal.startTimer(): the new entry is added, whatever runs.
DialogStart ==
    /\ Advance
    /\ Ready
    /\ dialogOpen
    /\ created < MaxEntries
    /\ \E c \in Categories, m \in Memos :
        LET r  == getRunningEntry(entries)
            ls == [op |-> "dialog", prev |-> r.id, outcome |-> "added",
                   prevDone |-> PrevDone(entries, r.id), at |-> Later,
                   sel |-> NoEntry]
        IN  Commit(DMAdd([Cur EXCEPT !.lastStart = ls], NewEntry(Later, c, m),
                         "dialogStarted"), {})
    /\ UNCHANGED <<auxVars, loaded, slot, files, written, cancelled>>

\* The Cancel button of the StartTimerModal.
DialogCancel ==
    /\ Quiescent
    /\ dialogOpen
    /\ Commit([Cur EXCEPT !.dialogOpen = FALSE], {})
    /\ UNCHANGED <<auxVars, now, ticks, loaded, slot, files, written, cancelled>>

\* The ids of the entries the daily list of the panel shows: those of the
\* rows of the monthly files, and the running entry's.
PanelIds ==
    {e.id : e \in Range(AllRowEntries(files))}
        \cup {e.id : e \in {x \in Range(entries) : x.isRunning}}

\* continueTimer(entryId)
PanelContinue ==
    /\ Advance
    /\ PanelFree
    /\ created < MaxEntries
    /\ \E id \in PanelIds, answer \in BOOLEAN :
        LET e  == getEntryAsync(entries, files, id)
            r  == getRunningEntry(entries)
            ls == [op |-> "continue", prev |-> r.id, outcome |-> "pending",
                   prevDone |-> r = NoEntry, at |-> Later, sel |-> NoEntry]
            b  == [Cur EXCEPT !.lastStart = ls]
            t0 == Task("none", "none", NoEntry, NoId, {}, "none", Data(e))
        IN  Commit(IF e = NoEntry THEN Cur
                   ELSE IF r = NoEntry THEN Cont("continueAdd", b, t0, Later)
                   ELSE IF answer THEN DMStop(b, Later, "continueAdd", Data(e), "dm")
                   ELSE [b EXCEPT !.lastStart.outcome = "refused"], {})
    /\ UNCHANGED <<auxVars, loaded, slot, files, written, cancelled>>

(* ------------------ EditEntryModal (src/view.ts) ----------------------- *)

\* The edit button of an entry of the daily list: openEditEntryModal(id).
\* The dialog keeps a copy of the entry.
EditOpen ==
    /\ PanelFree
    /\ \E id \in PanelIds :
        LET e == getEntryAsync(entries, files, id)
        IN  /\ e # NoEntry
            /\ Commit([Cur EXCEPT !.editEntry = Data(e)], {})
    /\ UNCHANGED <<auxVars, now, ticks, loaded, slot, files, written, cancelled>>

\* The value of a date and a time input filled from a timestamp, parsed
\* back: format('YYYY-MM-DD'), format('HH:mm:ss'), new Date(...).getTime().
EditInput(ms) == (ms \div SecMs) * SecMs

EditMask == {"startTime", "endTime", "duration", "category", "memo"}

\* The value of the end-time inputs as onOpen() fills them: empty (NoTime)
\* when the entry has no end time.
FilledEnd(e) ==
    IF e.endTime # NoTime /\ e.endTime # 0 THEN EditInput(e.endTime) ELSE NoTime

\* saveEntry() up to its await, the time inputs holding startInput and
\* endInput (NoTime: empty); category and memo are left as filled.
saveEntry(b, startInput, endInput) ==
    LET startTime == startInput
        endTime   == IF endInput # NoTime /\ ~b.editEntry.isRunning
                     THEN endInput ELSE NoTime
        duration  == IF startTime # 0 /\ endTime # NoTime /\ endTime # 0
                     THEN (endTime - startTime) \div SecMs
                     ELSE b.editEntry.duration
    IN  DMUpdate(b, b.editEntry.id, EditMask,
                 [b.editEntry EXCEPT !.startTime = startTime,
                                     !.endTime = endTime,
                                     !.duration = duration],
                 "editSaved")

\* saveEntry(), the form left as the dialog filled it.
EditSave ==
    /\ Ready
    /\ editEntry # NoEntry
    /\ Commit(saveEntry(Cur, EditInput(editEntry.startTime), FilledEnd(editEntry)), {})
    /\ UNCHANGED <<auxVars, now, ticks, loaded, slot, files, written, cancelled>>

\* The times typed into the time inputs: whole seconds.
TypedStarts == {4 * SecMs}

TypedEnds == {1 * SecMs, 5 * SecMs}

\* saveEntry(), the user having typed into the time inputs or not.
EditSaveTyped ==
    /\ Ready
    /\ editEntry # NoEntry
    /\ \E startInput \in TypedStarts \cup {EditInput(editEntry.startTime)},
          endInput \in TypedEnds \cup {FilledEnd(editEntry)} :
            Commit(saveEntry(Cur, startInput, endInput), {})
    /\ UNCHANGED <<auxVars, now, ticks, loaded, slot, files, written, cancelled>>

\* The Cancel button of the EditEntryModal.
EditCancel ==
    /\ Quiescent
    /\ editEntry # NoEntry
    /\ Commit([Cur EXCEPT !.editEntry = NoEntry], {})
    /\ UNCHANGED <<auxVars, now, ticks, loaded, slot, files, written, cancelled>>

(* --------------- the steps of the suspended operations ----------------- *)

\* The durable write of an entry: the slot when it runs, else its month file
\* (and the slot is cleared when it held that entry).
PersistSlot(sl, e) ==
    IF e.isRunning THEN e ELSE IF sl.id = e.id THEN NoEntry ELSE sl

PersistFiles(fs, e) == IF e.isRunning THEN fs ELSE MonthlyUpsert(fs, e)

PersistWritten(w, e) == IF e.isRunning THEN w ELSE w \cup {e.id}

\* stopRunningEntry(), first storage step: the finalized entry is written to
\* its month file.
StopPersist ==
    \E t \in tasks :
        /\ t.op = "stop" /\ t.pc = "persist"
        /\ files' = MonthlyUpsert(files, t.e)
        /\ written' = written \cup {t.id}
        /\ tasks' = (tasks \ {t}) \cup {[t EXCEPT !.pc = "clear"]}
        /\ UNCHANGED <<auxVars, now, ticks, created, loaded, entries, slot, modalVars, dialogOpen,
                       panelStop, view, editEntry, lastStart, lastStop, cancelled>>

\* stopRunningEntry(), second storage step: the slot is cleared, then memory
\* is updated (the running entry gives way to its finalized copy); the
\* awaiting handler goes on.
StopClear ==
    \E t \in tasks :
        /\ t.op = "stop" /\ t.pc = "clear"
        /\ slot' = NoEntry
        /\ LET i  == FindIndex(entries, LAMBDA e : e.id = t.id /\ e.isRunning)
               b1 == IF i = 0 THEN Cur
                     ELSE SetEntries(Cur, [entries EXCEPT ![i] = t.e])
               b2 == IF lastStop.pre.id = t.id /\ ~lastStop.done
                     THEN [b1 EXCEPT !.lastStop.done = TRUE,
                                     !.lastStop.before = lastStop.pre,
                                     !.lastStop.post =
                                         IF i = 0 THEN NoEntry ELSE Data(b1.entries[i])]
                     ELSE b1
           IN  Commit(Cont(t.cont, b2, t, now), {t})
        /\ UNCHANGED <<auxVars, now, ticks, loaded, files, written, cancelled>>

\* addEntry(), after its durable write: memory is re-sorted.
AddPersist ==
    \E t \in tasks :
        /\ t.op = "add"
        /\ slot' = PersistSlot(slot, t.e)
        /\ files' = PersistFiles(files, t.e)
        /\ written' = PersistWritten(written, t.e)
        /\ Commit(Cont(t.cont, SetEntries(Cur, SortByStart(entries)), t, now), {t})
        /\ UNCHANGED <<auxVars, now, ticks, loaded, cancelled>>

\* updateEntry(), after its storage steps.  An entry that was not in memory
\* is looked up in the month file of its id, merged, persisted and inserted
\* into memory; when it is in no file the update does nothing.
UpdatePersist ==
    \E t \in tasks :
        /\ t.op = "update"
        /\ LET d  == DiskLookup(files, t.id)
               e  == IF t.pc = "lookup"
                     THEN (IF d = NoEntry THEN NoEntry ELSE Merge(d, t.mask, t.e))
                     ELSE t.e
               es == IF t.pc = "lookup" /\ e # NoEntry THEN Append(entries, e)
                     ELSE entries
           IN  /\ slot' = IF e = NoEntry THEN slot ELSE PersistSlot(slot, e)
               /\ files' = IF e = NoEntry THEN files ELSE PersistFiles(files, e)
               /\ written' = IF e = NoEntry THEN written ELSE PersistWritten(written, e)
               /\ Commit(Cont(t.cont, SetEntries(Cur, SortByStart(es)), t, now), {t})
        /\ UNCHANGED <<auxVars, now, ticks, loaded, cancelled>>

\* deleteEntry(), after its removal from durable storage.
RemovePersist ==
    \E t \in tasks :
        /\ t.op = "remove"
        /\ slot' = IF slot.id = t.id THEN NoEntry ELSE slot
        /\ files' = MonthlyDelete(files, t.id)
        /\ Commit(Cont(t.cont, Cur, t, now), {t})
        /\ UNCHANGED <<auxVars, now, ticks, loaded, written, cancelled>>

(* --------------------------- specification ----------------------------- *)

Next ==
    \/ Away
    \/ Onload
    \/ Unload
    \/ Crash
    \/ QuickStart
    \/ StopCommand
    \/ ModalOpen
    \/ ModalStartStop
    \/ ModalCancel
    \/ ModalClose
    \/ ModalSetCategory
    \/ ModalEdit
    \/ ModalContinue
    \/ PanelRefresh
    \/ PanelStopClick
    \/ PanelStartClick
    \/ DialogStart
    \/ DialogCancel
    \/ PanelContinue
    \/ StopPersist
    \/ StopClear
    \/ AddPersist
    \/ UpdatePersist
    \/ RemovePersist

Spec == Init /\ [][Next]_vars

(* ------------- startup after the entries have been edited -------------- *)

\* The commands, the timer dialog and the edit dialog of the panel, with
\* shutdown and startup.
StartupNext ==
    \/ Away
    \/ Onload
    \/ Unload
    \/ Crash
    \/ QuickStart
    \/ StopCommand
    \/ ModalOpen
    \/ ModalStartStop
    \/ ModalClose
    \/ ModalEdit
    \/ EditOpen
    \/ EditSave
    \/ EditCancel
    \/ StopPersist
    \/ StopClear
    \/ AddPersist
    \/ UpdatePersist

StartupSpec == Init /\ [][StartupNext]_vars

(* ------------------------ the codec on its own ------------------------- *)

\* The entries encoded: finalized, starting on a whole second or not, ending
\* the same day or the next, with commas and quotes in category and memo.
\* (Dates are kept within 24 days of 1970-01-15 so that timestamps fit 32-bit
\* integers.)
CodecStarts == {3000, 1700}

CodecSpans == {5400000, DayMs + 1300}

CodecCategories == {<<"W">>, <<"a", ",", "\"", "b">>}

CodecMemos == {<<>>, <<"m">>, <<"\"", ",">>}

CodecEntries ==
    {Entry(st, st, st + d, d \div SecMs, c, m, FALSE) :
        st \in CodecStarts, d \in CodecSpans, c \in CodecCategories, m \in CodecMemos}

\* The rows written by hand or by an older version: the first n fields of
\* 1970-01-15,09:00:00,10:30:00,5400,A,B,C,D,E.
HandStart == 9 * 3600 * SecMs

HandFields ==
    <<FormatDate(HandStart), FormatTime(HandStart), FormatTime(HandStart + 5400000),
      Digits(5400), <<"A">>, <<"B">>, <<"C">>, <<"D">>, <<"E">>>>

HandRow(n) == JoinFields(SubSeq(HandFields, 1, n))

CodecAppend(line, kind, e, n) ==
    /\ Len(codec.text) < MaxLines
    /\ codec' = [text |-> Append(codec.text, line),
                 src |-> Append(codec.src, [kind |-> kind, e |-> e, n |-> n]),
                 out |-> <<>>, decoded |-> FALSE]
    /\ UNCHANGED <<progVars, report, config>>

\* upsert's encoding of an entry into the file.
CodecEncode == \E e \in CodecEntries : CodecAppend(EncodeRow(e), "entry", e, 8)

\* A row of 4 to 9 fields written by hand.
CodecHandWrite == \E n \in 4..9 : CodecAppend(HandRow(n), "hand", NoEntry, n)

\* The file is read back.
CodecDecode ==
    /\ ~codec.decoded
    /\ codec.text # <<>>
    /\ codec' = [codec EXCEPT !.out = DecodeFile(codec.text), !.decoded = TRUE]
    /\ UNCHANGED <<progVars, report, config>>

CodecNext ==
    \/ CodecEncode
    \/ CodecHandWrite
    \/ CodecDecode

CodecSpec == Init /\ [][CodecNext]_vars

(* ------------------- the reports of the report panel ------------------- *)

\* Rows over all monthly files of the vault a report is drawn from.
MaxReportRows == 3

\* readMonth(year, month): the decoded rows of one month, none for a missing
\* file.
ReadMonth(fs, k) == [i \in DOMAIN Rows(fs, k) |-> RowEntry(Rows(fs, k)[i])]

\* The month of the start of the range only.
ReadFirstMonth(fs, k, last) == ReadMonth(fs, k)

\* The months k..last read one after the other.
RECURSIVE ReadMonths(_, _, _)
ReadMonths(fs, k, last) ==
    IF k > last THEN <<>> ELSE ReadMonth(fs, k) \o ReadMonths(fs, k + 1, last)

\* The start of an entry falls within [startDate, endDate], both ends
\* included.
InRange(e, startDate, endDate) == startDate <= e.startTime /\ e.startTime <= endDate

\* getEntriesForDateRange(startDate, endDate) (readRange): every month
\* overlapping the range is read, the rows are filtered by their start,
\* concatenated and sorted by start time ascending.
getEntriesForDateRange(fs, startDate, endDate) ==
    SortByStart(Filter(ReadMonths(fs, MonthKey(startDate), MonthKey(endDate)),
                       LAMBDA e : InRange(e, startDate, endDate)))

\* The assignment in place of the addition.
AddToLast(breakdown, category, seconds) ==
    [c \in DOMAIN breakdown \cup {category} |->
        IF c = category THEN seconds ELSE breakdown[c]]

\* if (!breakdown[category]) breakdown[category] = 0;
\* breakdown[category] += seconds
AddTo(breakdown, category, seconds) ==
    [c \in DOMAIN breakdown \cup {category} |->
        IF c = category
        THEN (IF c \in DOMAIN breakdown THEN breakdown[c] ELSE 0) + seconds
        ELSE breakdown[c]]

\* The report aggregator: totalDuration is the sum of the durations, and
\* categoryBreakdown sums the durations per literal category string.
RECURSIVE Aggregate(_, _)
Aggregate(es, acc) ==
    IF es = <<>> THEN acc
    ELSE Aggregate(Tail(es),
                   [totalDuration     |-> acc.totalDuration + Head(es).duration,
                    categoryBreakdown |-> AddTo(acc.categoryBreakdown, Head(es).category,
                                                Head(es).duration)])

NoTotals == [totalDuration |-> 0, categoryBreakdown |-> NoBreakdown]

\* The sum of the values of a breakdown.
BreakdownSum(breakdown) ==
    LET Sum[cs \in SUBSET DOMAIN breakdown] ==
            IF cs = {} THEN 0
            ELSE LET c == CHOOSE x \in cs : TRUE
                 IN  breakdown[c] + Sum[cs \ {c}]
    IN  Sum[DOMAIN breakdown]

\* Math.round((duration / totalDuration) * 100): the quotient rounded to the
\* nearest integer, a half upwards; 0 / 0 is NaN, and any other duration
\* over 0 is an infinity (the text of the bar is then "NaN%", "Infinity%").
Percentage(duration, totalDuration) ==
    IF totalDuration # 0
    THEN LET n == IF totalDuration > 0 THEN 200 * duration + totalDuration
                  ELSE 0 - (200 * duration + totalDuration)
             m == IF totalDuration > 0 THEN 2 * totalDuration ELSE 0 - 2 * totalDuration
         IN  [kind |-> "number", value |-> n \div m]
    ELSE [kind |-> IF duration = 0 THEN "NaN"
                   ELSE IF duration > 0 THEN "Infinity" ELSE "-Infinity",
          value |-> 0]

\* One chart bar per key of the breakdown, with its percentage of the total.
ChartBars(categoryBreakdown, totalDuration) ==
    [c \in DOMAIN categoryBreakdown |-> Percentage(categoryBreakdown[c], totalDuration)]

\* The weekly and the monthly view: bars when the breakdown has a key, the
\* divisor being the total of the report.
SummaryBars(rep, categoryBreakdown, totalDuration) ==
    IF DOMAIN categoryBreakdown # {}
    THEN [rep EXCEPT !.bars = ChartBars(categoryBreakdown, totalDuration),
                     !.barTotal = totalDuration]
    ELSE rep

\* updateCategoryBreakdown(categoryBreakdown): the list is emptied, the
\* total is the sum of the values, and nothing is drawn when it is 0.
updateCategoryBreakdown(rep, categoryBreakdown) ==
    LET totalDuration == BreakdownSum(categoryBreakdown)
    IN  IF totalDuration = 0 THEN [rep EXCEPT !.bars = <<>>, !.barTotal = 0]
        ELSE [rep EXCEPT !.bars = ChartBars(categoryBreakdown, totalDuration),
                         !.barTotal = totalDuration]

\* const category = entry.category || 'Uncategorized'
WeeklyCategory(e) == IF e.category # "" THEN e.category ELSE "Uncategorized"

\* renderWeeklyView(): entries.forEach(entry => { ... }) over the entries of
\* the week.
RECURSIVE WeeklyTotals(_, _)
WeeklyTotals(es, acc) ==
    IF es = <<>> THEN acc
    ELSE WeeklyTotals(Tail(es),
                      [totalDuration     |-> acc.totalDuration + Head(es).duration,
                       categoryBreakdown |-> AddTo(acc.categoryBreakdown,
                                                   WeeklyCategory(Head(es)),
                                                   Head(es).duration)])

\* The day number of a timestamp, and the first millisecond of a day.
DayOf(ms) == ms \div DayMs

DayStart(day) == day * DayMs

\* moment's day(): 0 is Sunday (1970-01-01 was a Thursday).
Weekday(day) == (EpochDay + day + 4) % 7

\* The vaults the reports are drawn from: finalized entries of three days
\* around the end of January (1970-01-31 .. 1970-02-02), of 1800 or 3600
\* seconds, one of them starting with the day, with or without a category.
ReportStarts ==
    {DayStart(16) + 23 * 3600 * SecMs, DayStart(17), DayStart(17) + 3600 * SecMs,
     DayStart(18) + 10 * 3600 * SecMs}

ReportDuration(st) == IF (st \div (3600 * SecMs)) % 2 = 1 THEN 1800 ELSE 3600

ReportCategories == {"Work", "Personal", ""}

\* A timer stopped within its first second (1970-02-02 11:00): its duration
\* is Math.floor(elapsed / 1000) = 0.
ReportZeroStarts == {DayStart(18) + 11 * 3600 * SecMs}

ReportEntries ==
    {Entry(st, st, st + ReportDuration(st) * SecMs, ReportDuration(st), c, "", FALSE) :
        st \in ReportStarts, c \in ReportCategories}
    \cup {Entry(st, st, st + ShortGap, 0, "Work", "", FALSE) : st \in ReportZeroStarts}

\* The timers running while a report is displayed: started on 1970-02-02,
\* after every finalized entry, in one of the categories.
ReportRunStarts == {DayStart(18) + 12 * 3600 * SecMs + 300}

\* The clock readings of the displays, counted from the start of the timer:
\* within the first two seconds, and after an hour.
ReportLives == {ShortGap, 2 * ShortGap, 3600 * SecMs, 3600 * SecMs + ShortGap}

ReportDays == 14..18

\* The Start Day of Week setting: 0 (Sunday) .. 6 (Saturday).
startDaysOfWeek == 0..6

\* The last day whose milliseconds a 32-bit integer holds.
LastDay == 2147483647 \div DayMs

reportFrame == <<ticks, created, tasks, modalVars, dialogOpen, panelStop, view, editEntry,
                 lastStart, lastStop, written, cancelled, codec, config>>

\* A finalized entry is put into its monthly file, and the plugin is loaded
\* from the files.
ReportWrite ==
    /\ TotalRows(files) < MaxReportRows
    /\ slot = NoEntry
    /\ \E e \in ReportEntries :
        /\ files' = MonthlyUpsert(files, e)
        /\ now' = IF e.endTime > now THEN e.endTime ELSE now
    /\ entries' = LoadEntries(files', slot)
    /\ loaded' = TRUE
    /\ report' = NoReport
    /\ UNCHANGED <<slot, reportFrame>>

\* A timer is started (running entry in the cache and in the slot), and the
\* panel is refreshed.
ReportStart ==
    /\ loaded
    /\ slot = NoEntry
    /\ \E st \in ReportRunStarts, c \in Categories :
        /\ now <= st
        /\ now' = st
        /\ slot' = NewEntry(st, c, "")
        /\ entries' = InsertByStart(entries, NewEntry(st, c, ""))
    /\ report' = NoReport
    /\ UNCHANGED <<loaded, files, reportFrame>>

\* getDailyReport(year, month, day): the entries of the month (the rows of
\* its file, and the running entry when it started in that month) that
\* started on the day, and their totals.
DailyEntries(fs, es, day) ==
    LET k == MonthKey(DayStart(day))
        r == getRunningEntry(es)
        month == ReadMonth(fs, k)
                    \o (IF r # NoEntry /\ MonthKey(r.startTime) = k THEN <<Data(r)>> ELSE <<>>)
    IN  Filter(month, LAMBDA e : DayOf(e.startTime) = day)

getDailyReport(fs, es, day) ==
    LET des == DailyEntries(fs, es, day)
        totals == Aggregate(des, NoTotals)
    IN  [entries |-> des, totalDuration |-> totals.totalDuration,
         categoryBreakdown |-> totals.categoryBreakdown]

\* if (breakdown[runningEntry.category]) breakdown[runningEntry.category] += elapsedSeconds;
\* else breakdown[runningEntry.category] = elapsedSeconds
WithRunning(breakdown, r, t) ==
    LET elapsedSeconds == PanelElapsed(r, t)
    IN  [c \in DOMAIN breakdown \cup {r.category} |->
            IF c # r.category THEN breakdown[c]
            ELSE IF c \in DOMAIN breakdown /\ breakdown[c] # 0
                 THEN breakdown[c] + elapsedSeconds
                 ELSE elapsedSeconds]

\* renderDailyView(): the summary of the day, the bars being drawn by
\* updateCategoryBreakdown() when the breakdown with the running time has a
\* key.
DailyDisplay(day, daily, withRunning, ticking) ==
    LET shown == [NoReport EXCEPT
                     !.view = "daily", !.date = day, !.entries = daily.entries,
                     !.totalDuration = daily.totalDuration,
                     !.baseCategoryBreakdown = daily.categoryBreakdown,
                     !.categoryBreakdown = withRunning,
                     !.chart = (DOMAIN withRunning # {}),
                     !.ticking = ticking]
    IN  IF DOMAIN withRunning # {}
        THEN updateCategoryBreakdown(shown, withRunning)
        ELSE shown

\* refreshView() with viewType 'daily': the running-timer block and its
\* interval when an entry is running, then renderDailyView() for currentDate.
DailyRender ==
    /\ loaded
    /\ \E day \in ReportDays :
        LET daily == getDailyReport(files, entries, day)
            runningEntry == getRunningEntry(entries)
            withRunning == IF runningEntry # NoEntry
                           THEN WithRunning(daily.categoryBreakdown, runningEntry, now)
                           ELSE daily.categoryBreakdown
        IN  report' = DailyDisplay(day, daily, withRunning, runningEntry # NoEntry)
    /\ UNCHANGED <<now, loaded, entries, slot, files, reportFrame>>

\* The interval of the running-timer block fires: updateRunningTimer().
DailyTick ==
    /\ report.view = "daily"
    /\ report.ticking
    /\ \E live \in ReportLives :
        /\ now < slot.startTime + live
        /\ now' = slot.startTime + live
        /\ LET runningEntry == getRunningEntry(entries)
           IN  report' = IF runningEntry # NoEntry /\ report.chart
                         THEN LET categoryBreakdownWithRunning ==
                                      WithRunning(report.baseCategoryBreakdown,
                                                  runningEntry, now')
                              IN  updateCategoryBreakdown(
                                      [report EXCEPT !.categoryBreakdown =
                                                        categoryBreakdownWithRunning],
                                      categoryBreakdownWithRunning)
                         ELSE report
    /\ UNCHANGED <<loaded, entries, slot, files, reportFrame>>

\* getEntriesForDateRange(startDate, endDate) for two dates.
RangeQuery ==
    /\ loaded
    /\ \E d1, d2 \in ReportDays :
        /\ d1 <= d2
        /\ report' = [NoReport EXCEPT
                        !.view = "range", !.startDate = DayStart(d1), !.endDate = DayStart(d2),
                        !.entries = getEntriesForDateRange(files, DayStart(d1), DayStart(d2))]
    /\ UNCHANGED <<now, loaded, entries, slot, files, reportFrame>>

\* currentDate.clone().startOf('week').add(startDayOfWeek, 'days'), as a day
\* number: the Sunday on or before the day (moment's default locale), plus
\* the setting.
WeekStartDay(day, startDayOfWeek) == day - Weekday(day) + startDayOfWeek

\* renderWeeklyView() with currentDate on a day of ReportDays (the weeks
\* being those a 32-bit integer holds).
WeeklyRender ==
    /\ loaded
    /\ \E day \in ReportDays, startDayOfWeek \in startDaysOfWeek :
        LET weekStart == DayStart(WeekStartDay(day, startDayOfWeek))
            weekEnd   == weekStart + 6 * DayMs
            es        == getEntriesForDateRange(files, weekStart, weekEnd)
            totals    == WeeklyTotals(es, NoTotals)
        IN  /\ WeekStartDay(day, startDayOfWeek) + 6 <= LastDay
            /\ report' = SummaryBars(
                            [NoReport EXCEPT
                               !.view = "weekly", !.date = day,
                               !.startDayOfWeek = startDayOfWeek,
                               !.startDate = weekStart, !.endDate = weekEnd, !.entries = es,
                               !.totalDuration = totals.totalDuration,
                               !.categoryBreakdown = totals.categoryBreakdown],
                            totals.categoryBreakdown, totals.totalDuration)
    /\ UNCHANGED <<now, loaded, entries, slot, files, reportFrame>>

\* getMonthlyReport(year, month): the entries of the month (the rows of its
\* file, and the running entry when it started in that month), and their
\* totals.
getMonthlyReport(fs, es, k) ==
    LET r == getRunningEntry(es)
        month == ReadMonth(fs, k)
                    \o (IF r # NoEntry /\ MonthKey(r.startTime) = k THEN <<Data(r)>> ELSE <<>>)
        totals == Aggregate(month, NoTotals)
    IN  [entries |-> month, totalDuration |-> totals.totalDuration,
         categoryBreakdown |-> totals.categoryBreakdown]

\* renderMonthlyView() with currentDate on a day of ReportDays.
MonthlyRender ==
    /\ loaded
    /\ \E day \in ReportDays :
        LET monthly == getMonthlyReport(files, entries, MonthKey(DayStart(day)))
        IN  report' = SummaryBars(
                          [NoReport EXCEPT
                             !.view = "monthly", !.date = day, !.entries = monthly.entries,
                             !.totalDuration = monthly.totalDuration,
                             !.categoryBreakdown = monthly.categoryBreakdown],
                          monthly.categoryBreakdown, monthly.totalDuration)
    /\ UNCHANGED <<now, loaded, entries, slot, files, reportFrame>>

DailyNext ==
    \/ ReportWrite
    \/ ReportStart
    \/ DailyRender
    \/ DailyTick

DailySpec == Init /\ [][DailyNext]_vars

ReportNext ==
    \/ ReportWrite
    \/ RangeQuery
    \/ WeeklyRender
    \/ MonthlyRender

ReportSpec == Init /\ [][ReportNext]_vars

(* --------------------------- the settings tab -------------------------- *)

\* The texts typed into the Categories field: nothing, one name, two names
\* in both orders, blanks around and within the names, empty pieces, and a
\* name typed twice.
Texts ==
    {<<>>,
     <<"Work">>,
     <<"Misc">>,
     <<"Work", ",", " ", "Misc">>,
     <<" ", "Misc", " ", ",", "Work", ",">>,
     <<",", " ", ",", "Work", " ", "Misc">>,
     <<"Work", ",", "Misc", ",", "Work">>,
     <<"Misc", ",", " ", "Misc">>}

PickedColors == {"#123456"}

configFrame == <<progVars, codec, report>>

\* Categories, onChange: the list is parsed from the text; saveSettings(),
\* saveCategories(), display().
ConfigEditCategories ==
    /\ \E text \in Texts :
        LET st == [config.settings EXCEPT !.categories = ParseCategories(text)]
        IN  config' = [settings |-> st, file |-> SavedFile(st), fresh |-> FALSE]
    /\ UNCHANGED configFrame

\* Default Category, onChange: one of the options of the dropdown, which are
\* the categories.
ConfigChooseDefault ==
    /\ \E i \in DOMAIN config.settings.categories :
        LET st == [config.settings EXCEPT !.defaultCategory = config.settings.categories[i]]
        IN  config' = [settings |-> st, file |-> SavedFile(st), fresh |-> FALSE]
    /\ UNCHANGED configFrame

\* The color picker of a category, onChange.
ConfigPickColor ==
    /\ \E i \in DOMAIN config.settings.categories, color \in PickedColors :
        LET category == config.settings.categories[i]
            st == [config.settings EXCEPT !.categoryColors =
                        (category :> color) @@ config.settings.categoryColors]
        IN  config' = [settings |-> st, file |-> SavedFile(st), fresh |-> FALSE]
    /\ UNCHANGED configFrame

\* The plugin is loaded again: loadCategories().
ConfigLoad ==
    /\ config' = LoadCategories(config)
    /\ UNCHANGED configFrame

ConfigNext ==
    \/ ConfigEditCategories
    \/ ConfigChooseDefault
    \/ ConfigPickColor
    \/ ConfigLoad

ConfigSpec == Init /\ [][ConfigNext]_vars

(* ------------------------------ properties ----------------------------- *)

\* The indices of the cache entries with isRunning = true.
RunningSet == {i \in DOMAIN entries : entries[i].isRunning}

\* C1 (single active timer): whatever the start, stop and cancel operations
\* so far, at most one entry of the cache has isRunning = true.
C1_SingleActiveTimer == Cardinality(RunningSet) <= 1

C3_StopFinalizes ==
    (lastStop.done /\ lastStop.before.isRunning /\ lastStop.uniq) =>
        /\ ~lastStop.post.isRunning
        /\ lastStop.post.endTime = lastStop.t
        /\ lastStop.post.duration =
              lastStop.before.duration
                  + ((lastStop.t - lastStop.before.startTime) \div SecMs)
        /\ lastStop.post.id = lastStop.before.id
        /\ lastStop.post.startTime = lastStop.before.startTime
        /\ lastStop.post.category = lastStop.before.category
        /\ lastStop.post.memo = lastStop.before.memo

\* C4 (idle stop is a no-op): a stop requested while no entry is running
\* changes nothing.
C4_IdleStopNoOp == lastStop.idle => ~lastStop.effect

\* C5 (slot and monthly file are exclusive): the slot holds a running entry
\* or nothing, and once the latest stop has completed and nothing is in
\* flight, the entry of the slot has no row in a monthly file.
C5_SlotXorFile ==
    /\ slot # NoEntry => slot.isRunning
    /\ (lastStop.done /\ Quiescent /\ loaded /\ slot # NoEntry) => ~HasRow(files, slot.id)

\* C6 (24-hour safeguard): at startup the running entry of the slot is
\* force-stopped exactly when its elapsed time, stored duration included,
\* exceeds 86400 s, and otherwise stays running; when the forced stop
\* completes the slot is cleared and the finalized entry, of a duration above
\* 86400 s, has its row in a monthly file.
C6_Safeguard ==
    [][/\ (~loaded /\ loaded' /\ slot # NoEntry) =>
            LET forced == \E t \in tasks' : t.op = "stop" /\ t.id = slot.id
            IN  /\ forced <=> (Elapsed(slot, now) > DaySecs)
                /\ ~forced => (/\ slot' = slot
                               /\ \E i \in DOMAIN entries' :
                                     entries'[i].isRunning /\ entries'[i].id = slot.id)
       /\ (lastStop'.path = "startup" /\ ~lastStop.done /\ lastStop'.done) =>
            /\ slot' = NoEntry
            /\ ~lastStop'.post.isRunning
            /\ lastStop'.post.endTime = lastStop'.t
            /\ lastStop'.post.duration = Elapsed(lastStop'.pre, lastStop'.t)
            /\ lastStop'.post.duration > DaySecs
            /\ HasRow(files', lastStop'.pre.id)]_vars

\* C7 (cancel leaves no trace): an entry cancelled while running, never
\* stopped before, has no row written for it, and once its cancel has
\* completed neither the slot nor the cache holds it.
C7_CancelNoTrace ==
    \A id \in cancelled :
        /\ id \notin written
        /\ ~HasRow(files, id)
        /\ (\A t \in tasks : ~(t.op = "remove" /\ t.id = id)) =>
                /\ slot.id # id
                /\ \A i \in DOMAIN entries : entries[i].id # id

C7_Witness ==
    /\ cancelled # {}
    /\ Quiescent
    /\ loaded

\* C8 (idempotent upsert): no monthly file holds two rows of the same
\* derived id.
C8_OneRowPerId ==
    \A k \in DOMAIN files : \A i, j \in DOMAIN files[k] :
        RowId(files[k][i]) = RowId(files[k][j]) => i = j

\* The rows of the decoded file that were encoded from an entry.
EncodedRows == {i \in DOMAIN codec.src : codec.decoded /\ codec.src[i].kind = "entry"}

C10_LayoutByFieldCount ==
    codec.decoded =>
        /\ Len(codec.out) = Len(codec.text)
        /\ \A i \in DOMAIN codec.text :
            LET n == codec.src[i].n
                d == codec.out[i]
                f == IF codec.src[i].kind = "hand" THEN HandFields
                     ELSE <<<<>>, <<>>, <<>>, <<>>, <<>>, <<>>,
                            codec.src[i].e.category, codec.src[i].e.memo>>
            IN  /\ Len(SplitRow(codec.text[i])) = n
                /\ n < 5 => d.id = NoId
                /\ n >= 8 => (d.id # NoId /\ d.category = f[7] /\ d.memo = f[8])
                /\ (n >= 5 /\ n < 8) =>
                        /\ d.id = HandStart
                        /\ d.duration = 5400
                        /\ d.category = f[5]
                        /\ d.memo = (IF n >= 6 THEN f[6] ELSE <<>>)

C10_Witness ==
    /\ codec.decoded
    /\ Len(codec.text) = 2
    /\ codec.src[1].n < 5
    /\ codec.src[2].n = 6
    /\ codec.out[2].id # NoId

\* The sum of the durations of the entries of a sequence that satisfy a
\* condition on their category.
SumWhere(es, cats) ==
    LET S[i \in 0..Len(es)] ==
            IF i = 0 THEN 0
            ELSE S[i - 1] + (IF es[i].category \in cats THEN es[i].duration ELSE 0)
    IN  S[Len(es)]

Count(es, x) == Cardinality({i \in DOMAIN es : es[i] = x})

C13_LiveElapsed ==
    [][/\ (modalOpen /\ ActiveTimerOf(Cur).isRunning) =>
            ModalElapsed(ActiveTimerOf(Cur), now)
                = ActiveTimerOf(Cur).duration + ((now - ActiveTimerOf(Cur).startTime) \div SecMs)
       /\ (panelStop /\ getRunningEntry(entries) # NoEntry) =>
            PanelElapsed(getRunningEntry(entries), now)
                = getRunningEntry(entries).duration
                    + ((now - getRunningEntry(entries).startTime) \div SecMs)
       /\ (~loaded /\ loaded') =>
            LET r == getRunningEntry(LoadEntries(files, slot))
            IN  r # NoEntry =>
                    StartupElapsed(r, now) = r.duration + ((now - r.startTime) \div SecMs)]_vars

\* The finalized entries of the displayed day.
FinalizedOfDay == Filter(ReadMonth(files, MonthKey(DayStart(report.date))),
                         LAMBDA e : DayOf(e.startTime) = report.date)

\* The running entry when it started on the displayed day, else no entry.
LiveOfDay ==
    LET r == getRunningEntry(entries)
    IN  IF r # NoEntry /\ DayOf(r.startTime) = report.date THEN r ELSE NoEntry

\* C14 (live daily totals): the total and the category breakdown displayed by
\* the daily report are those of the finalized entries of the displayed day,
\* to which the live elapsed time of the running entry is added exactly when
\* an entry is running and started on the displayed day.
C14_DailyLive ==
    report.view = "daily" =>
        LET fin  == FinalizedOfDay
            live == IF LiveOfDay # NoEntry THEN Elapsed(LiveOfDay, now) ELSE 0
            cats == {fin[i].category : i \in DOMAIN fin}
                        \cup (IF LiveOfDay # NoEntry THEN {LiveOfDay.category} ELSE {})
        IN  /\ report.totalDuration = SumWhere(fin, cats) + live
            /\ \A c \in cats :
                /\ c \in DOMAIN report.categoryBreakdown
                /\ report.categoryBreakdown[c] =
                        SumWhere(fin, {c}) + (IF LiveOfDay.category = c THEN live ELSE 0)
            /\ \A c \in DOMAIN report.categoryBreakdown \ cats :
                report.categoryBreakdown[c] = 0

\* The total displayed by the daily report is the total of the finalized
\* entries of the displayed day.
C14_TotalIsFinalized ==
    report.view = "daily" =>
        report.totalDuration
            = SumWhere(FinalizedOfDay, {FinalizedOfDay[i].category : i \in DOMAIN FinalizedOfDay})
                + (IF LiveOfDay # NoEntry THEN LiveOfDay.duration ELSE 0)

\* The breakdown displayed by the daily report holds the live elapsed time
\* of the running entry whenever an entry is running, whatever the day
\* displayed.
C14_BreakdownAlwaysLive ==
    (report.view = "daily" /\ getRunningEntry(entries) # NoEntry) =>
        LET r == getRunningEntry(entries)
        IN  /\ r.category \in DOMAIN report.categoryBreakdown
            /\ report.categoryBreakdown[r.category]
                    = SumWhere(FinalizedOfDay, {r.category}) + Elapsed(r, now)

\* A name is one of the names of a list.
Member(name, names) == \E i \in DOMAIN names : names[i] = name

\* C15 (default category): once the category configuration has been saved
\* and loaded, the default category is a member of the category list.
C15_DefaultIsMember ==
    config.fresh => Member(config.settings.defaultCategory, config.settings.categories)

\* The same for the lists that hold a category.
C15_DefaultIsMemberOfNonEmpty ==
    (config.fresh /\ config.settings.categories # <<>>) =>
        Member(config.settings.defaultCategory, config.settings.categories)

\* The default category had been removed from the list by an edit, and the
\* load has replaced it by a category of the list.
C15_Witness ==
    /\ config.fresh
    /\ config.file.present
    /\ ~Member(config.file.defaultCategory, config.file.categories)
    /\ Member(config.settings.defaultCategory, config.settings.categories)

\* C16 (unique category names): no name is twice in the category list.
C16_UniqueNames ==
    \A i, j \in DOMAIN config.settings.categories :
        config.settings.categories[i] = config.settings.categories[j] => i = j

C18_StartTimeImmutable ==
    [][\A i \in DOMAIN entries : \A j \in DOMAIN entries' :
            (/\ entries'[j].id = entries[i].id
             /\ UniqueId(entries, entries[i].id)
             /\ UniqueId(entries', entries[i].id)) =>
                entries'[j].startTime = entries[i].startTime]_vars

\* C19 (lifecycle): an entry enters the cache, when it is created, running,
\* without an end time and with a duration of 0; an entry that is stopped is
\* not made running again, and an end time that is set is not cleared.
C19_Lifecycle ==
    [][\A j \in DOMAIN entries' :
            LET e == entries'[j]
            IN  /\ (loaded /\ loaded' /\ DiskLookup(files, e.id) = NoEntry
                        /\ \A i \in DOMAIN entries : entries[i].id # e.id) =>
                        (e.isRunning /\ e.endTime = NoTime /\ e.duration = 0)
                /\ \A i \in DOMAIN entries :
                        (/\ loaded /\ loaded' /\ entries[i].id = e.id
                         /\ UniqueId(entries, e.id) /\ UniqueId(entries', e.id)) =>
                            /\ ~entries[i].isRunning => ~e.isRunning
                            /\ entries[i].endTime # NoTime => e.endTime # NoTime]_vars

\* C20 (unique ids): no two entries of the cache have the same id.
C20_UniqueIds ==
    \A i, j \in DOMAIN entries : entries[i].id = entries[j].id => i = j

\* C21 (mutation through the data manager): a step that changes the category
\* or the memo of an entry of the cache is a step in which a caller has
\* called updateEntry for that entry (an entry being known by its id, where
\* the cache holds one entry of that id).
C21_MutationByManager ==
    [][\A i \in DOMAIN entries : \A j \in DOMAIN entries' :
            (/\ loaded /\ loaded'
             /\ entries'[j].id = entries[i].id
             /\ UniqueId(entries, entries[i].id)
             /\ UniqueId(entries', entries[i].id)
             /\ \/ entries'[j].category # entries[i].category
                \/ entries'[j].memo # entries[i].memo) =>
                \E t \in tasks' \ tasks : t.op = "update" /\ t.id = entries[i].id]_vars

\* The suspended operations are those the latest start request launched: one
\* of them adds the entry created at the clock reading of the request, makes
\* an entry run from that reading, or ends an entry at that reading.
OfLatestStart(ts) ==
    \E t \in ts :
        \/ t.op = "add" /\ t.id = lastStart.at
        \/ t.op = "update" /\ t.mask = StartMask /\ t.e.startTime = lastStart.at
        \/ t.op \in {"stop", "update"} /\ t.mask = StopMask /\ t.e.endTime = lastStart.at

\* The step completes the last of the operations the latest start launched.
StartCompletes ==
    /\ tasks # {} /\ tasks' = {}
    /\ loaded'
    /\ OfLatestStart(tasks)

\* this.activeTimer of the timer dialog after the step.
ActiveTimerAfter ==
    IF activeLive' THEN entries'[ActiveIndex(entries')] ELSE activeTimer'

\* The step completes a continue of the timer dialog asked for while the
\* dialog's timer was running.
ContinueCompletes ==
    /\ StartCompletes
    /\ lastStart.sel # NoEntry
    /\ lastStop.path = "modal" /\ lastStop.t = lastStart.at

\* C22 (continue in the timer dialog): when the operations launched by a
\* continue of a recent entry, asked for while the dialog's timer was
\* running, have all completed, the old timer is finalized, exactly one
\* entry is running, it has the category and the memo of the selected entry,
\* and the dialog holds it as its active timer, its button showing Stop.
C22_ContinueEnds ==
    [][ContinueCompletes =>
          /\ \E i \in DOMAIN entries' : entries'[i].id = lastStop.pre.id
          /\ PrevDone(entries', lastStop.pre.id)
          /\ Cardinality({i \in DOMAIN entries' : entries'[i].isRunning}) = 1
          /\ \A i \in DOMAIN entries' : entries'[i].isRunning =>
                /\ entries'[i].category = lastStart.sel.category
                /\ entries'[i].memo = lastStart.sel.memo
                /\ ActiveTimerAfter.id = entries'[i].id
                /\ ActiveTimerAfter.isRunning
          /\ btnText' = "Stop"]_vars

\* C23 (Start Quick Timer): when the operations launched by the Start Quick
\* Timer command have all completed, exactly one entry is running, it is the
\* new entry with the default category, an empty memo and a duration of 0,
\* the running-timer slot holds it, and the entry that was running at the
\* request, if any, is stopped and has its finalized row in a monthly file.
C23_QuickStartEnds ==
    [][(StartCompletes /\ lastStart.op = "quick") =>
          /\ Cardinality({i \in DOMAIN entries' : entries'[i].isRunning}) = 1
          /\ \A i \in DOMAIN entries' : entries'[i].isRunning =>
                Data(entries'[i]) = NewEntry(lastStart.at, defaultCategory, "")
          /\ slot' = NewEntry(lastStart.at, defaultCategory, "")
          /\ lastStart.prev # NoId =>
                /\ \E i \in DOMAIN entries' : entries'[i].id = lastStart.prev
                /\ PrevDone(entries', lastStart.prev)
                /\ HasRow(files', lastStart.prev)]_vars

(* ------------------------ unloading the plugin ------------------------- *)

\* The commands and the start dialog of the panel, with shutdown and
\* startup; the application stays alive (the plugin is disabled and enabled
\* again), so the event loop resumes every suspended storage operation.
UnloadNext ==
    \/ Onload
    \/ Unload
    \/ QuickStart
    \/ StopCommand
    \/ PanelStartClick
    \/ DialogStart
    \/ DialogCancel
    \/ StopPersist
    \/ StopClear
    \/ AddPersist

UnloadSpec ==
    /\ Init
    /\ [][UnloadNext]_vars
    /\ WF_vars(StopPersist)
    /\ WF_vars(StopClear)
    /\ WF_vars(AddPersist)

\* onunload() has called stopRunningEntry(), which has not completed.
UnloadStopping == ~loaded /\ lastStop.path = "unload" /\ ~lastStop.done

\* C24 (unload stops the timer): once onunload() has called
\* stopRunningEntry(), eventually the entry it stops has its row in a monthly
\* file, the running-timer slot is cleared and no entry of the cache has
\* isRunning = true.
C24_UnloadStops ==
    UnloadStopping ~>
        (/\ HasRow(files, lastStop.pre.id)
         /\ slot = NoEntry
         /\ RunningSet = {})

\* C24 where one entry runs when onunload() is called: the part of C24 that
\* does not rest on the single active timer (C1).
C24_UnloadStopsTheOne ==
    (UnloadStopping /\ Cardinality(RunningSet) = 1) ~>
        (/\ HasRow(files, lastStop.pre.id)
         /\ slot = NoEntry
         /\ RunningSet = {})

\* The entry was started by the Start button (or a continue button) of the
\* timer dialog.
StartedInDialog(e) == lastStart.op = "modal" /\ lastStart.at = e.startTime

\* C25 (Cancel keeps a timer the dialog did not start): a step that closes
\* the timer dialog leaves an entry that is running and was not started in
\* the dialog as it is in the cache, and launches no operation on the slot
\* or the files.
C25_CancelKeepsRunning ==
    [][\A i \in DOMAIN entries :
            (/\ loaded /\ loaded'
             /\ modalOpen /\ ~modalOpen'
             /\ entries[i].isRunning
             /\ ~StartedInDialog(entries[i])) =>
                /\ \E j \in DOMAIN entries' : Data(entries'[j]) = Data(entries[i])
                /\ tasks' = {}
                /\ slot' = slot
                /\ files' = files]_vars

\* The step is a Save of the edit dialog: saveEntry() has called updateEntry.
SaveSteps == {t \in tasks' \ tasks : t.op = "update" /\ t.cont = "editSaved"}

\* C26 (saving the edit dialog of a running entry): a Save of the edit dialog
\* for an entry that is running leaves it running, without an end time and
\* with its stored duration (an entry being known by its id, where the cache
\* holds one entry of that id).
C26_SaveKeepsRunning ==
    [][\A t \in SaveSteps : \A i \in DOMAIN entries : \A j \in DOMAIN entries' :
            (/\ entries[i].id = t.id /\ entries'[j].id = t.id
             /\ UniqueId(entries, t.id) /\ UniqueId(entries', t.id)
             /\ entries[i].isRunning) =>
                /\ entries'[j].isRunning
                /\ entries'[j].endTime = NoTime
                /\ entries'[j].duration = entries[i].duration]_vars

(* ------------------------- the edit dialog alone ----------------------- *)

\* The commands and the edit dialog of the panel, the user typing into the
\* time inputs of the dialog.
EditNext ==
    \/ Onload
    \/ QuickStart
    \/ StopCommand
    \/ EditOpen
    \/ EditSaveTyped
    \/ EditCancel
    \/ StopPersist
    \/ StopClear
    \/ AddPersist
    \/ UpdatePersist

EditSpec == Init /\ [][EditNext]_vars

\* C26 where the copy the edit dialog was opened with agrees with the cache
\* on whether the entry runs: then the Save leaves a running entry running,
\* without an end time and with its stored duration, whatever is typed.
C26_SaveKeepsRunningFresh ==
    [][\A t \in SaveSteps : \A i \in DOMAIN entries : \A j \in DOMAIN entries' :
            (/\ entries[i].id = t.id /\ entries'[j].id = t.id
             /\ UniqueId(entries, t.id) /\ UniqueId(entries', t.id)
             /\ entries[i].isRunning
             /\ editEntry.isRunning) =>
                /\ entries'[j].isRunning
                /\ entries'[j].endTime = NoTime
                /\ entries'[j].duration = entries[i].duration]_vars

\* C27 (durations are not negative): every entry of the cache that is
\* finalized (not running, its end time set) has duration >= 0 and
\* endTime >= startTime.
C27_FinalizedNotNegative ==
    \A i \in DOMAIN entries :
        (~entries[i].isRunning /\ entries[i].endTime # NoTime) =>
            /\ entries[i].duration >= 0
            /\ entries[i].endTime >= entries[i].startTime

\* The weekly view is displayed.
Weekly == report.view = "weekly"

\* The 7 days of the week displayed: the day of its start and the 6 after.
WeekDays == DayOf(report.startDate)..(DayOf(report.startDate) + 6)

\* The week displayed begins, at midnight, on the configured start day of
\* the week, and its end is 6 days later.
C28_WeekBeginsOnStartDay ==
    Weekly =>
        /\ report.startDate = DayStart(DayOf(report.startDate))
        /\ Weekday(DayOf(report.startDate)) = report.startDayOfWeek
        /\ DayOf(report.endDate) = DayOf(report.startDate) + 6

\* The week displayed contains the selected date.
C28_WeekContainsDate == Weekly => report.date \in WeekDays

\* The entries of the monthly files started on one of the 7 days are all in
\* the result of the range query.
C28_WeekQueried ==
    Weekly =>
        \A e \in Range(AllRowEntries(files)) :
            DayOf(e.startTime) \in WeekDays => e \in Range(report.entries)

\* C28 (the week of the weekly view): for every selected date and every
\* start day of the week, the week displayed is 7 consecutive days beginning
\* on the configured start day, it contains the selected date, and the
\* entries started at any time on any of the 7 days are in the queried range.
C28_WeeklyRange ==
    /\ C28_WeekBeginsOnStartDay
    /\ C28_WeekContainsDate
    /\ C28_WeekQueried


\* A category bar is drawn by the daily, the weekly or the monthly view.
BarsDrawn == report.view \in {"daily", "weekly", "monthly"} /\ DOMAIN report.bars # {}

\* C29 (percentages): whenever the daily, weekly or monthly view draws a
\* category bar, the total it divides by is greater than 0 and every
\* percentage is a number between 0 and 100.
C29_PercentageDefined ==
    BarsDrawn =>
        /\ report.barTotal > 0
        /\ \A c \in DOMAIN report.bars :
              /\ report.bars[c].kind = "number"
              /\ report.bars[c].value \in 0..100

\* The same for the daily view alone, whose bars are drawn by
\* updateCategoryBreakdown.
C29_DailyPercentageDefined ==
    (BarsDrawn /\ report.view = "daily") =>
        /\ report.barTotal > 0
        /\ \A c \in DOMAIN report.bars :
              /\ report.bars[c].kind = "number"
              /\ report.bars[c].value \in 0..100

\* The daily view shows a day whose entries all have duration 0, and draws
\* no bar.
C29_DailyZeroTotal ==
    /\ report.view = "daily"
    /\ report.entries # <<>>
    /\ \A i \in DOMAIN report.entries : report.entries[i].duration = 0
    /\ ~report.ticking
    /\ report.bars = <<>>

\* The weekly or the monthly view shows entries that all have duration 0.
C29_ZeroTotalShown ==
    /\ report.view \in {"weekly", "monthly"}
    /\ report.entries # <<>>
    /\ \A i \in DOMAIN report.entries : report.entries[i].duration = 0


(* -------------------- the panel and its refresh interval --------------- *)

\* The Day, Week, Month, Today and arrow buttons of the panel, no dialog
\* covering the workspace: refreshView(), whatever the data manager is doing.
ViewSwitch ==
    /\ loaded
    /\ view.open
    /\ ~modalOpen /\ ~dialogOpen /\ editEntry = NoEntry
    /\ Commit(Cont("panelRefresh", Cur, NoEntry, now), {})
    /\ UNCHANGED <<auxVars, now, ticks, loaded, slot, files, written, cancelled>>

\* updateRunningTimer(): nothing without the timer element or the id; the
\* interval is cleared when the entry is gone or no longer running.
updateRunningTimer(v, es) ==
    IF ~v.timerValueEl \/ v.runningEntryId = NoId THEN v
    ELSE LET runningEntry == getEntry(es, v.runningEntryId)
         IN  IF runningEntry = NoEntry \/ ~runningEntry.isRunning
             THEN ClearTimerInterval(v)
             ELSE v

\* An interval that was set and not cleared fires.
ViewTick ==
    /\ view.intervals > 0
    /\ Commit([Cur EXCEPT !.view = updateRunningTimer(view, entries)], {})
    /\ UNCHANGED <<auxVars, now, ticks, loaded, slot, files, written, cancelled>>

\* The panel is closed, no dialog covering the workspace: onClose().
ViewClose ==
    /\ loaded
    /\ view.open
    /\ ~modalOpen /\ ~dialogOpen /\ editEntry = NoEntry
    /\ Commit([Cur EXCEPT !.view = [ClearTimerInterval(view) EXCEPT !.open = FALSE]], {})
    /\ UNCHANGED <<auxVars, now, ticks, loaded, slot, files, written, cancelled>>

PanelNext ==
    \/ Onload
    \/ QuickStart
    \/ StopCommand
    \/ ViewSwitch
    \/ PanelStopClick
    \/ PanelStartClick
    \/ DialogStart
    \/ DialogCancel
    \/ PanelContinue
    \/ ViewTick
    \/ ViewClose
    \/ StopPersist
    \/ StopClear
    \/ AddPersist

PanelSpec == Init /\ [][PanelNext]_vars

\* At most one interval is set and not cleared.
C30_AtMostOneInterval == view.intervals <= 1

\* An interval is active only if the latest refreshView() found a running
\* entry.
C30_OnlyWhenFound == view.intervals > 0 => view.found

\* No interval is active once the panel has been closed.
C30_NoneAfterClose == ~view.open => view.intervals = 0

\* C30 (refresh timer): the panel owns at most one periodic refresh timer at
\* any time: whatever the interleaving of refreshView() calls and onClose(),
\* at most one interval is active, one is active only if the latest refresh
\* found a running entry, and none is active after the panel has been closed.
C30_SingleRefreshTimer ==
    /\ view.intervals <= 1
    /\ (view.intervals > 0 => view.found)
    /\ (~view.open => view.intervals = 0)

\* Two refreshes have followed each other while an entry was running: the
\* panel is open with its one interval, set by the later one.
C30_RefreshedTwice ==
    /\ view.open
    /\ view.timerInterval
    /\ view.intervals = 1
    /\ lastStart.op = "continue"
    /\ lastStart.outcome = "added"
    /\ tasks = {}

====
